---------------------------- MODULE Spec2Model ----------------------------
(***************************************************************************)
(* State-machine model of the FSO protocol simulator core:                 *)
(*   - the beam tracker (src/src/beam_tracking/*.c),                       *)
(*   - the atmospheric channel object (src/src/turbulence/channel.c),      *)
(*   - the DPSK modulator (src/src/modulation/dpsk.c),                     *)
(*   - the OOK / PPM modulator object (src/src/modulation/*.c),            *)
(*   - the FEC codec with Reed-Solomon and LDPC (src/src/fec/*.c),         *)
(*   - the random number generator (src/src/utils/random.c), replayed in   *)
(*     two runs that differ only in the wall clock.                        *)
(*                                                                         *)
(* Fixed-point conventions (the C code uses double):                       *)
(*   angles      integer multiples of AngleUnit micro-radians,             *)
(*   step size   micro-radians,                                            *)
(*   strengths   integer multiples of 1/StrengthOne,                       *)
(*   DPSK phase  integer multiples of pi,                                  *)
(*   LDPC LLRs   millionths.                                               *)
(***************************************************************************)
EXTENDS Integers, Sequences, FiniteSets, TLC

VARIABLES tracker, last, channel, chLast, dpsk, dpLast, modem, mdLast, fec, fecLast, replay, galois, mapCall, sim

vars == <<tracker, last, channel, chLast, dpsk, dpLast, modem, mdLast, fec, fecLast, replay, galois, mapCall, sim>>

(***************************************************************************)
(* Result codes (fso.h FSOErrorCode)                                       *)
(***************************************************************************)
FSO_SUCCESS == "FSO_SUCCESS"
FSO_ERROR_INVALID_PARAM == "FSO_ERROR_INVALID_PARAM"
FSO_ERROR_MEMORY == "FSO_ERROR_MEMORY"
FSO_ERROR_NOT_INITIALIZED == "FSO_ERROR_NOT_INITIALIZED"
FSO_ERROR_CONVERGENCE == "FSO_ERROR_CONVERGENCE"
FSO_ERROR_UNSUPPORTED == "FSO_ERROR_UNSUPPORTED"

(***************************************************************************)
(* Utility macros (fso.h)                                                  *)
(***************************************************************************)
FSO_MIN(a, b) == IF a < b THEN a ELSE b

FSO_MAX(a, b) == IF a > b THEN a ELSE b

FSO_CLAMP(x, lo, hi) == FSO_MAX(lo, FSO_MIN(x, hi))

\* C double -> int conversions and libm helpers on the fixed-point grid
TruncDiv(a, b) == IF a >= 0 THEN a \div b ELSE -((-a) \div b)

\* round(a / b) for b > 0: half away from zero
RoundDiv(a, b) == IF a >= 0 THEN (2 * a + b) \div (2 * b)
                  ELSE -((2 * (-a) + b) \div (2 * b))

\* floor(a / b) for b > 0
FloorDiv(a, b) == a \div b

\* ceil(a / b) for a >= 0, b > 0
CeilDiv(a, b) == (a + b - 1) \div b

\* an array held by value: every element is computed once, when it is written
Array(f) == f @@ <<>>

(***************************************************************************)
(* Tracker defaults set by beam_track_init                                 *)
(***************************************************************************)
StepSizeDefault == 10000
StepSizeMin == 1000
StepSizeMax == 100000
StepAdaptNum == 11
StepAdaptDen == 10
MomentumNum == 9
MomentumDen == 10
ConvergenceThreshold == 10
ConvergenceEpsilon == 100
DefaultThreshold == 1
StrengthOne == 10

\* angle grid: half the minimum step, so that step_size * 0.5 is on the grid
AngleUnit == StepSizeMin \div 2

\* default PID: Kp=1.0, Ki=0.1, Kd=0.05 (hundredths), 100 Hz, limit 1.0 rad*s
DefaultKp == 100
DefaultKi == 10
DefaultKd == 5
DefaultUpdateRate == 100
GainDen == 100
MilliPerSecond == 1000

\* integral accumulator unit: angle unit * millisecond
IntegralOne == (1000000 \div AngleUnit) * MilliPerSecond

(***************************************************************************)
(* Model bounds                                                            *)
(***************************************************************************)
MapSamples == 3
MapCell == 20
MaxUpdates == 2
MaxScans == 1
MaxPeak == 8

\* inputs offered to the tracker operations
CheckStrengths == {-1, 0, MaxPeak \div 2}
UpdateStrengths == {0, MaxPeak \div 2}
ThresholdInputs == {MaxPeak \div 2}
Targets == {<<MapCell \div 4, 0>>, <<2 * MapCell, MapCell>>}
\* <<az_range, el_range, resolution>>
ScanInputs ==
    {<<2 * MapCell, 2 * MapCell, (3 * MapCell) \div 4>>,
     <<4 * MapCell, 2 * MapCell, MapCell>>}
\* <<az_range, el_range, coarse_resolution, fine_resolution>>
CalibrateInputs ==
    {<<2 * MapCell, 2 * MapCell, MapCell, MapCell \div 2>>,
     <<2 * MapCell, 2 * MapCell, MapCell, (3 * MapCell) \div 4>>}
CallbackSet ==
    {[az |-> 0, el |-> 0, peak |-> MaxPeak \div 4, width |-> MapCell \div 4],
     [az |-> MapCell \div 4, el |-> 0, peak |-> MaxPeak, width |-> MapCell \div 4]}
PidConfigs ==
    {[kp |-> DefaultKp \div 2, ki |-> DefaultKi, kd |-> 0, update_rate |-> DefaultUpdateRate,
      integral_limit |-> IntegralOne \div 1000]}

(***************************************************************************)
(* Signal map (beam_tracking.c)                                            *)
(***************************************************************************)
\* a NULL SignalMap pointer
NoMap ==
    [data |-> <<>>, azimuth_samples |-> 0, elevation_samples |-> 0,
     azimuth_min |-> 0, azimuth_max |-> 0, elevation_min |-> 0, elevation_max |-> 0,
     azimuth_resolution |-> 0, elevation_resolution |-> 0]

\* the double +inf, above every finite value of the model
PositiveInfinity == 2^30

\* x / y in doubles for x > 0: a division by zero gives +inf
DoubleDiv(x, y) == IF y = 0 THEN PositiveInfinity ELSE x \div y

signal_map_create(azimuth_samples, elevation_samples, azimuth_range, elevation_range, center_az, center_el) ==
    IF azimuth_samples = 0 \/ elevation_samples = 0
    THEN NoMap
    ELSE IF azimuth_range <= 0 \/ elevation_range <= 0
    THEN NoMap
    ELSE
    [data |-> [i \in 0..(azimuth_samples * elevation_samples - 1) |-> 0],
     azimuth_samples |-> azimuth_samples,
     elevation_samples |-> elevation_samples,
     azimuth_min |-> center_az - azimuth_range \div 2,
     azimuth_max |-> center_az + azimuth_range \div 2,
     elevation_min |-> center_el - elevation_range \div 2,
     elevation_max |-> center_el + elevation_range \div 2,
     azimuth_resolution |-> DoubleDiv(azimuth_range, azimuth_samples - 1),
     elevation_resolution |-> DoubleDiv(elevation_range, elevation_samples - 1)]

InMapBounds(map, azimuth, elevation) ==
    ~(azimuth < map.azimuth_min \/ azimuth > map.azimuth_max \/
      elevation < map.elevation_min \/ elevation > map.elevation_max)

MapIndex(map, azimuth, elevation) ==
    LET az_idx == FSO_CLAMP(RoundDiv(azimuth - map.azimuth_min, map.azimuth_resolution),
                            0, map.azimuth_samples - 1)
        el_idx == FSO_CLAMP(RoundDiv(elevation - map.elevation_min, map.elevation_resolution),
                            0, map.elevation_samples - 1)
    IN el_idx * map.azimuth_samples + az_idx

\* signal_map_set without the bounds test
signal_map_set_unchecked(map, azimuth, elevation, strength) ==
    [map |-> [map EXCEPT !.data[MapIndex(map, azimuth, elevation)] = strength],
     result |-> FSO_SUCCESS]

\* returns the map after the write and the result code
signal_map_set(map, azimuth, elevation, strength) ==
    IF ~InMapBounds(map, azimuth, elevation)
    THEN [map |-> map, result |-> FSO_ERROR_INVALID_PARAM]
    ELSE [map |-> [map EXCEPT !.data[MapIndex(map, azimuth, elevation)] = strength],
          result |-> FSO_SUCCESS]

\* bilinear interpolation; the value is returned as a numerator over
\* MapDen(map) so that no rounding happens inside the interpolation
MapDen(map) == map.azimuth_resolution * map.elevation_resolution

signal_map_get(map, azimuth, elevation) ==
    IF ~InMapBounds(map, azimuth, elevation)
    THEN [num |-> 0, result |-> FSO_ERROR_INVALID_PARAM]
    ELSE
      LET da == azimuth - map.azimuth_min
          de == elevation - map.elevation_min
          az0f == FloorDiv(da, map.azimuth_resolution)
          el0f == FloorDiv(de, map.elevation_resolution)
          az_frac == da - az0f * map.azimuth_resolution
          el_frac == de - el0f * map.elevation_resolution
          az_idx0 == FSO_CLAMP(az0f, 0, map.azimuth_samples - 1)
          az_idx1 == FSO_CLAMP(az0f + 1, 0, map.azimuth_samples - 1)
          el_idx0 == FSO_CLAMP(el0f, 0, map.elevation_samples - 1)
          el_idx1 == FSO_CLAMP(el0f + 1, 0, map.elevation_samples - 1)
          v00 == map.data[el_idx0 * map.azimuth_samples + az_idx0]
          v10 == map.data[el_idx0 * map.azimuth_samples + az_idx1]
          v01 == map.data[el_idx1 * map.azimuth_samples + az_idx0]
          v11 == map.data[el_idx1 * map.azimuth_samples + az_idx1]
          v0 == v00 * (map.azimuth_resolution - az_frac) + v10 * az_frac
          v1 == v01 * (map.azimuth_resolution - az_frac) + v11 * az_frac
      IN [num |-> v0 * (map.elevation_resolution - el_frac) + v1 * el_frac,
          result |-> FSO_SUCCESS]

signal_map_clear(map) ==
    [map EXCEPT !.data = [i \in DOMAIN map.data |-> 0]]

(***************************************************************************)
(* PID controller (beam_tracking.c)                                        *)
(***************************************************************************)
pid_create(kp, ki, kd, update_rate, integral_limit) ==
    [kp |-> kp, ki |-> ki, kd |-> kd,
     integral_az |-> 0, integral_el |-> 0,
     prev_error_az |-> 0, prev_error_el |-> 0,
     integral_limit |-> integral_limit,
     update_rate |-> update_rate,
     dt |-> MilliPerSecond \div update_rate]

pid_reset(pid) ==
    [pid EXCEPT !.integral_az = 0, !.integral_el = 0,
                !.prev_error_az = 0, !.prev_error_el = 0]

PidOutput(pid, error, integral, prev_error) ==
    TruncDiv(pid.kp * error
             + TruncDiv(pid.ki * integral, MilliPerSecond)
             + TruncDiv(pid.kd * (error - prev_error) * MilliPerSecond, pid.dt),
             GainDen)

\* pid_update without the anti-windup clamp
pid_update_without_clamp(pid, error_az, error_el) ==
    LET int_az == pid.integral_az + error_az * pid.dt
        int_el == pid.integral_el + error_el * pid.dt
    IN [pid |-> [pid EXCEPT !.integral_az = int_az, !.integral_el = int_el,
                            !.prev_error_az = error_az, !.prev_error_el = error_el],
        output_az |-> PidOutput(pid, error_az, int_az, pid.prev_error_az),
        output_el |-> PidOutput(pid, error_el, int_el, pid.prev_error_el),
        result |-> FSO_SUCCESS]

pid_update(pid, error_az, error_el) ==
    LET int_az == FSO_CLAMP(pid.integral_az + error_az * pid.dt,
                            -pid.integral_limit, pid.integral_limit)
        int_el == FSO_CLAMP(pid.integral_el + error_el * pid.dt,
                            -pid.integral_limit, pid.integral_limit)
    IN [pid |-> [pid EXCEPT !.integral_az = int_az, !.integral_el = int_el,
                            !.prev_error_az = error_az, !.prev_error_el = error_el],
        output_az |-> PidOutput(pid, error_az, int_az, pid.prev_error_az),
        output_el |-> PidOutput(pid, error_el, int_el, pid.prev_error_el),
        result |-> FSO_SUCCESS]

(***************************************************************************)
(* Tracker construction (beam_tracking.c, beam_track_init)                 *)
(***************************************************************************)
\* a BeamTracker that no beam_track_init has filled in
NoTracker == [strength_map |-> NoMap]

\* returns the tracker after the call and the result code
beam_track_init(t, initial_az, initial_el, map_az_samples, map_el_samples, map_az_range, map_el_range) ==
    IF map_az_samples < 2 \/ map_el_samples < 2
    THEN [t |-> t, result |-> FSO_ERROR_INVALID_PARAM]
    ELSE IF map_az_range <= 0 \/ map_el_range <= 0
    THEN [t |-> t, result |-> FSO_ERROR_INVALID_PARAM]
    ELSE
    [t |->
    [azimuth |-> initial_az,
     elevation |-> initial_el,
     signal_strength |-> 0,
     step_size |-> StepSizeDefault,
     velocity_az |-> 0,
     velocity_el |-> 0,
     convergence_count |-> 0,
     strength_map |-> signal_map_create(map_az_samples, map_el_samples,
                                        map_az_range, map_el_range,
                                        initial_az, initial_el),
     pid |-> pid_create(DefaultKp, DefaultKi, DefaultKd, DefaultUpdateRate,
                        IntegralOne),
     signal_threshold |-> DefaultThreshold,
     misaligned |-> FALSE,
     reacquisition_mode |-> FALSE,
     update_count |-> 0,
     scan_count |-> 0],
     result |-> FSO_SUCCESS]

(***************************************************************************)
(* Scan callback: a user function (azimuth, elevation) -> strength.        *)
(* The model draws it from a family of peaked fields: cb.peak at           *)
(* (cb.az, cb.el), falling by one strength unit per cb.width angle units   *)
(* of city-block distance, never below 0.                                  *)
(***************************************************************************)
Abs(x) == IF x < 0 THEN -x ELSE x

\* the Gaussian field of the tracker tests: exp(-(az^2 + el^2) / (2 sigma^2))
\* with sigma = 0.05 rad = 100 angle units, rounded to the nearest strength
\* unit.  GaussianLevel[v] is the largest squared distance (angle units
\* squared) at which the field still rounds to at least v:
\* 2 sigma^2 ln(StrengthOne / (v - 1/2)).
GaussianLevel == <<59914, 37942, 27725, 20996, 15970, 11956, 8615, 5753, 3250, 1025>>

mock_signal_strength(azimuth, elevation) ==
    Cardinality({v \in DOMAIN GaussianLevel :
                    azimuth * azimuth + elevation * elevation <= GaussianLevel[v]})

\* the callback record naming the Gaussian test field (width 0 selects it)
MockField == [az |-> 0, el |-> 0, peak |-> StrengthOne, width |-> 0]

Callback(cb, azimuth, elevation) ==
    IF cb.width = 0
    THEN mock_signal_strength(azimuth - cb.az, elevation - cb.el)
    ELSE FSO_MAX(0, cb.peak - (Abs(azimuth - cb.az) + Abs(elevation - cb.el)) \div cb.width)

(***************************************************************************)
(* Peak finding and scanning (beam_scanning.c)                             *)
(***************************************************************************)
\* the linear search keeps the first cell (lowest index) holding the maximum:
\* a later cell replaces the peak only when strictly greater
PeakIndex(map) ==
    CHOOSE index \in DOMAIN map.data :
        /\ \A other \in DOMAIN map.data : map.data[other] <= map.data[index]
        /\ \A other \in DOMAIN map.data : other < index => map.data[other] < map.data[index]

beam_track_find_peak(t) ==
    LET map == t.strength_map
        index == PeakIndex(map)
        el_idx == index \div map.azimuth_samples
        az_idx == index % map.azimuth_samples
    IN [strength |-> map.data[index],
        az |-> map.azimuth_min + az_idx * map.azimuth_resolution,
        el |-> map.elevation_min + el_idx * map.elevation_resolution]

\* number of scan points along one axis
ScanPoints(range, resolution) == CeilDiv(range, resolution) + 1

\* the position probed at loop indices (az_idx, el_idx)
ScanAz(t, az_range, resolution, az_idx) == (t.azimuth - az_range \div 2) + az_idx * resolution

ScanEl(t, el_range, resolution, el_idx) == (t.elevation - el_range \div 2) + el_idx * resolution

\* the nested scan loop, flattened: k = el_idx * az_points + az_idx.  Every
\* probe inside the map bounds is written to its nearest cell by
\* signal_map_set, in loop order, so a cell ends with the value of the last
\* probe that rounds to it; a cell no probe rounds to keeps its value.
ScanLoop(map, t, az_range, el_range, resolution, cb) ==
    LET az_points == ScanPoints(az_range, resolution)
        el_points == ScanPoints(el_range, resolution)
        probe == [k \in 0..(az_points * el_points - 1) |->
                    LET azimuth == ScanAz(t, az_range, resolution, k % az_points)
                        elevation == ScanEl(t, el_range, resolution, k \div az_points)
                    IN [strength |-> Callback(cb, azimuth, elevation),
                        index |-> IF InMapBounds(map, azimuth, elevation)
                                  THEN MapIndex(map, azimuth, elevation) ELSE -1]]
        LastWrite(index) ==
            LET W == {k \in DOMAIN probe : probe[k].index = index}
            IN IF W = {} THEN -1 ELSE CHOOSE k \in W : \A j \in W : j <= k
    IN [map EXCEPT !.data = [index \in DOMAIN map.data |->
            LET k == LastWrite(index)
            IN IF k = -1 THEN map.data[index] ELSE probe[k].strength]]

\* the positions at which the callback was invoked, with the value returned
ScanProbes(t, az_range, el_range, resolution, cb) ==
    { <<ScanAz(t, az_range, resolution, a), ScanEl(t, el_range, resolution, e),
        Callback(cb, ScanAz(t, az_range, resolution, a), ScanEl(t, el_range, resolution, e))>> :
        a \in 0..(ScanPoints(az_range, resolution) - 1),
        e \in 0..(ScanPoints(el_range, resolution) - 1) }

\* the tail of beam_track_scan: find the peak of the scanned map and adopt it
ScanAdoptPeak(t1, probes) ==
    LET peak == beam_track_find_peak(t1)
    IN [t |-> [t1 EXCEPT !.azimuth = peak.az, !.elevation = peak.el,
                         !.signal_strength = peak.strength],
        result |-> FSO_SUCCESS,
        probes |-> probes]

beam_track_scan(t, az_range, el_range, resolution, cb) ==
    IF az_range <= 0 \/ el_range <= 0
    THEN [t |-> t, result |-> FSO_ERROR_INVALID_PARAM, probes |-> {}]
    ELSE IF resolution <= 0
    THEN [t |-> t, result |-> FSO_ERROR_INVALID_PARAM, probes |-> {}]
    ELSE ScanAdoptPeak(
           [t EXCEPT !.strength_map = ScanLoop(signal_map_clear(t.strength_map), t,
                                               az_range, el_range, resolution, cb),
                     !.scan_count = @ + 1],
           ScanProbes(t, az_range, el_range, resolution, cb))

(***************************************************************************)
(* Misalignment detection and recovery (misalignment.c)                    *)
(***************************************************************************)
\* variant: a new threshold also clears the misaligned flag
set_threshold_clears_flag(t, threshold) ==
    IF threshold < 0 \/ threshold > StrengthOne
    THEN [t |-> t, result |-> FSO_ERROR_INVALID_PARAM]
    ELSE [t |-> [t EXCEPT !.signal_threshold = threshold, !.misaligned = FALSE],
          result |-> FSO_SUCCESS]

beam_track_set_threshold(t, threshold) ==
    IF threshold < 0 \/ threshold > StrengthOne
    THEN [t |-> t, result |-> FSO_ERROR_INVALID_PARAM]
    ELSE [t |-> [t EXCEPT !.signal_threshold = threshold], result |-> FSO_SUCCESS]

\* variant: the threshold itself counts as misaligned (<= for <)
check_misalignment_inclusive(t, measured_strength) ==
    IF measured_strength < 0
    THEN [t |-> t, ret |-> 0]
    ELSE LET t1 == [t EXCEPT !.signal_strength = measured_strength]
         IN IF measured_strength <= t1.signal_threshold
            THEN [t |-> [t1 EXCEPT !.misaligned = TRUE], ret |-> 1]
            ELSE [t |-> [t1 EXCEPT !.misaligned = FALSE], ret |-> 0]

\* ret is the int returned: 1 = misaligned, 0 = aligned
beam_track_check_misalignment(t, measured_strength) ==
    IF measured_strength < 0
    THEN [t |-> t, ret |-> 0]
    ELSE LET t1 == [t EXCEPT !.signal_strength = measured_strength]
         IN IF measured_strength < t1.signal_threshold
            THEN [t |-> IF ~t1.misaligned THEN [t1 EXCEPT !.misaligned = TRUE] ELSE t1,
                  ret |-> 1]
            ELSE [t |-> IF t1.misaligned THEN [t1 EXCEPT !.misaligned = FALSE] ELSE t1,
                  ret |-> 0]

\* the tracker as beam_track_reacquire hands it to the scan
ReacquireEnter(t) ==
    [t EXCEPT !.reacquisition_mode = TRUE, !.pid = pid_reset(@), !.convergence_count = 0]

\* variant: success leaves the misaligned flag as it was
ReacquireKeepsFlag(scan) ==
    IF scan.result # FSO_SUCCESS
    THEN [t |-> [scan.t EXCEPT !.reacquisition_mode = FALSE],
          result |-> scan.result, probes |-> scan.probes]
    ELSE IF scan.t.signal_strength < scan.t.signal_threshold
    THEN [t |-> [scan.t EXCEPT !.reacquisition_mode = FALSE],
          result |-> FSO_ERROR_CONVERGENCE, probes |-> scan.probes]
    ELSE [t |-> [scan.t EXCEPT !.reacquisition_mode = FALSE],
          result |-> FSO_SUCCESS, probes |-> scan.probes]

reacquire_keeps_flag(t, az_search_range, el_search_range, resolution, cb) ==
    ReacquireKeepsFlag(beam_track_scan(ReacquireEnter(t), az_search_range,
                                       el_search_range, resolution, cb))

\* variant: a failed search raises the misaligned flag
ReacquireFlagsFailure(scan) ==
    IF scan.result # FSO_SUCCESS
    THEN [t |-> [scan.t EXCEPT !.reacquisition_mode = FALSE],
          result |-> scan.result, probes |-> scan.probes]
    ELSE IF scan.t.signal_strength < scan.t.signal_threshold
    THEN [t |-> [scan.t EXCEPT !.reacquisition_mode = FALSE, !.misaligned = TRUE],
          result |-> FSO_ERROR_CONVERGENCE, probes |-> scan.probes]
    ELSE [t |-> [scan.t EXCEPT !.reacquisition_mode = FALSE, !.misaligned = FALSE],
          result |-> FSO_SUCCESS, probes |-> scan.probes]

reacquire_flags_failure(t, az_search_range, el_search_range, resolution, cb) ==
    ReacquireFlagsFailure(beam_track_scan(ReacquireEnter(t), az_search_range,
                                          el_search_range, resolution, cb))

\* beam_track_reacquire after its scan returned
ReacquireAfterScan(scan) ==
    IF scan.result # FSO_SUCCESS
    THEN [t |-> [scan.t EXCEPT !.reacquisition_mode = FALSE],
          result |-> scan.result, probes |-> scan.probes]
    ELSE IF scan.t.signal_strength < scan.t.signal_threshold
    THEN [t |-> [scan.t EXCEPT !.reacquisition_mode = FALSE],
          result |-> FSO_ERROR_CONVERGENCE, probes |-> scan.probes]
    ELSE [t |-> [scan.t EXCEPT !.reacquisition_mode = FALSE, !.misaligned = FALSE],
          result |-> FSO_SUCCESS, probes |-> scan.probes]

beam_track_reacquire(t, az_search_range, el_search_range, resolution, cb) ==
    IF az_search_range <= 0 \/ el_search_range <= 0
    THEN [t |-> t, result |-> FSO_ERROR_INVALID_PARAM, probes |-> {}]
    ELSE IF resolution <= 0
    THEN [t |-> t, result |-> FSO_ERROR_INVALID_PARAM, probes |-> {}]
    ELSE ReacquireAfterScan(beam_track_scan(ReacquireEnter(t), az_search_range,
                                            el_search_range, resolution, cb))

\* coarse is the coarse-scan peak held in the locals coarse_az, coarse_el,
\* coarse_strength (None when the coarse scan was not reached or failed)
None == [strength |-> -1, az |-> 0, el |-> 0]

\* the coarse peak saved in coarse_az, coarse_el, coarse_strength
CoarsePeak(t1) == [strength |-> t1.signal_strength, az |-> t1.azimuth, el |-> t1.elevation]

\* phase 3: accept or reject the calibrated signal, reset on acceptance
CalibrateCheck(t2, coarse) ==
    IF t2.signal_strength < t2.signal_threshold
    THEN [t |-> t2, result |-> FSO_ERROR_CONVERGENCE, coarse |-> coarse]
    ELSE [t |-> [t2 EXCEPT !.convergence_count = 0,
                           !.misaligned = FALSE,
                           !.reacquisition_mode = FALSE,
                           !.pid = pid_reset(@)],
          result |-> FSO_SUCCESS, coarse |-> coarse]

\* phase 2 returned: the coarse peak is restored only if the fine scan failed
CalibrateAfterFine(scan2, coarse) ==
    CalibrateCheck(IF scan2.result # FSO_SUCCESS
                   THEN [scan2.t EXCEPT !.azimuth = coarse.az, !.elevation = coarse.el,
                                        !.signal_strength = coarse.strength]
                   ELSE scan2.t,
                   coarse)

\* phase 1 returned: fine scan of 4 coarse cells around the coarse peak
CalibrateAfterCoarse(scan1, coarse_resolution, fine_resolution, cb) ==
    IF scan1.result # FSO_SUCCESS
    THEN [t |-> scan1.t, result |-> scan1.result, coarse |-> None]
    ELSE CalibrateAfterFine(beam_track_scan(scan1.t, coarse_resolution * 4,
                                            coarse_resolution * 4, fine_resolution, cb),
                            CoarsePeak(scan1.t))

beam_track_calibrate(t, az_range, el_range, coarse_resolution, fine_resolution, cb) ==
    IF az_range <= 0 \/ el_range <= 0
    THEN [t |-> t, result |-> FSO_ERROR_INVALID_PARAM, coarse |-> None]
    ELSE IF coarse_resolution <= 0 \/ fine_resolution <= 0
    THEN [t |-> t, result |-> FSO_ERROR_INVALID_PARAM, coarse |-> None]
    ELSE CalibrateAfterCoarse(beam_track_scan(t, az_range, el_range, coarse_resolution, cb),
                              coarse_resolution, fine_resolution, cb)

(***************************************************************************)
(* Gradient descent (gradient_descent.c)                                   *)
(***************************************************************************)
\* gradients are returned as the numerators s_plus - s_minus over MapDen;
\* the division by 2 * delta_angle is carried out in StepTimesGrad
beam_track_estimate_gradient(t, delta_angle) ==
    IF delta_angle <= 0
    THEN [grad_az |-> 0, grad_el |-> 0, result |-> FSO_ERROR_INVALID_PARAM]
    ELSE
      LET map == t.strength_map
          c == signal_map_get(map, t.azimuth, t.elevation)
          s_center == IF c.result # FSO_SUCCESS THEN t.signal_strength * MapDen(map) ELSE c.num
          Sample(az, el) == LET g == signal_map_get(map, az, el)
                            IN IF g.result # FSO_SUCCESS THEN s_center ELSE g.num
      IN [grad_az |-> Sample(t.azimuth + delta_angle, t.elevation)
                      - Sample(t.azimuth - delta_angle, t.elevation),
          grad_el |-> Sample(t.azimuth, t.elevation + delta_angle)
                      - Sample(t.azimuth, t.elevation - delta_angle),
          result |-> FSO_SUCCESS]

\* beam_track_adapt_step_size without the clamp
adapt_step_size_without_clamp(t, improvement) ==
    IF improvement > 0
    THEN [t EXCEPT !.step_size = TruncDiv(@ * StepAdaptNum, StepAdaptDen),
                   !.convergence_count = 0]
    ELSE IF improvement * 1000000 < -(ConvergenceEpsilon * StrengthOne)
    THEN [t EXCEPT !.step_size = TruncDiv(@ * StepAdaptDen, StepAdaptNum),
                   !.convergence_count = 0]
    ELSE [t EXCEPT !.convergence_count = @ + 1]

\* beam_track_adapt_step_size counting an unchanged measurement twice
adapt_step_size_counts_twice(t, improvement) ==
    LET t1 == IF improvement > 0
              THEN [t EXCEPT !.step_size = TruncDiv(@ * StepAdaptNum, StepAdaptDen),
                             !.convergence_count = 0]
              ELSE IF improvement * 1000000 < -(ConvergenceEpsilon * StrengthOne)
              THEN [t EXCEPT !.step_size = TruncDiv(@ * StepAdaptDen, StepAdaptNum),
                             !.convergence_count = 0]
              ELSE [t EXCEPT !.convergence_count = @ + 2]
    IN [t1 EXCEPT !.step_size = FSO_CLAMP(@, StepSizeMin, StepSizeMax)]

beam_track_adapt_step_size(t, improvement) ==
    LET t1 == IF improvement > 0
              THEN [t EXCEPT !.step_size = TruncDiv(@ * StepAdaptNum, StepAdaptDen),
                             !.convergence_count = 0]
              ELSE IF improvement * 1000000 < -(ConvergenceEpsilon * StrengthOne)
              THEN [t EXCEPT !.step_size = TruncDiv(@ * StepAdaptDen, StepAdaptNum),
                             !.convergence_count = 0]
              ELSE [t EXCEPT !.convergence_count = @ + 1]
    IN [t1 EXCEPT !.step_size = FSO_CLAMP(@, StepSizeMin, StepSizeMax)]

beam_track_is_converged(t) == t.convergence_count >= ConvergenceThreshold

\* step_size * grad in angle units, grad = num / (MapDen * StrengthOne) / (2 * delta_angle)
StepTimesGrad(t, num, delta_angle) ==
    TruncDiv(t.step_size * num * (1000000 \div (AngleUnit * AngleUnit)),
             2 * MapDen(t.strength_map) * StrengthOne * delta_angle)

\* sqrt(d_az^2 + d_el^2) < convergence_epsilon, on the angle grid
\* (each component is compared first, so that the squares stay small)
BelowEpsilon(d_az, d_el) ==
    /\ Abs(d_az) <= ConvergenceEpsilon \div AngleUnit
    /\ Abs(d_el) <= ConvergenceEpsilon \div AngleUnit
    /\ (d_az * d_az + d_el * d_el) * AngleUnit * AngleUnit
           < ConvergenceEpsilon * ConvergenceEpsilon

\* sqrt(grad_az^2 + grad_el^2) < 1e-6: one unit of either numerator is a
\* slope of at least 1 / (MapDen * StrengthOne * 2 * delta_angle), far above 1e-6
GradientTooSmall(grad_az, grad_el) == grad_az = 0 /\ grad_el = 0

\* the velocity, counter and position update at the end of beam_track_update
UpdateApply(t2, v_az, v_el, map_write) ==
    [t |-> [t2 EXCEPT !.velocity_az = v_az,
                      !.velocity_el = v_el,
                      !.convergence_count = IF BelowEpsilon(v_az, v_el) THEN @ + 1 ELSE 0,
                      !.azimuth = @ + v_az,
                      !.elevation = @ + v_el,
                      !.update_count = @ + 1],
     result |-> FSO_SUCCESS, map_write |-> map_write]

\* beam_track_update once the gradient g has been estimated
UpdateMove(t2, g, delta_angle, map_write) ==
    IF g.result # FSO_SUCCESS
    THEN [t |-> [t2 EXCEPT !.update_count = @ + 1],
          result |-> g.result, map_write |-> map_write]
    ELSE IF GradientTooSmall(g.grad_az, g.grad_el)
    THEN [t |-> [t2 EXCEPT !.convergence_count = @ + 1, !.update_count = @ + 1],
          result |-> FSO_SUCCESS, map_write |-> map_write]
    ELSE UpdateApply(t2,
                     TruncDiv(MomentumNum * t2.velocity_az, MomentumDen)
                       + StepTimesGrad(t2, g.grad_az, delta_angle),
                     TruncDiv(MomentumNum * t2.velocity_el, MomentumDen)
                       + StepTimesGrad(t2, g.grad_el, delta_angle),
                     map_write)

\* delta_angle = step_size * 0.5
HalfStep(t2) == t2.step_size \div (2 * AngleUnit)

\* beam_track_update once the step size has been adapted (tracker t2)
UpdateDescend(t2, map_write) ==
    IF beam_track_is_converged(t2)
    THEN [t |-> [t2 EXCEPT !.update_count = @ + 1],
          result |-> FSO_SUCCESS, map_write |-> map_write]
    ELSE UpdateMove(t2, beam_track_estimate_gradient(t2, HalfStep(t2)), HalfStep(t2),
                    map_write)

\* beam_track_update once the map write has returned set: its failure is
\* logged and nothing else
UpdateAfterWrite(t, set, measured_strength) ==
    UpdateDescend(
        beam_track_adapt_step_size(
            [t EXCEPT !.signal_strength = measured_strength, !.strength_map = set.map],
            measured_strength - t.signal_strength),
        set.result)

\* variant: a failed map write is returned at once, before the tracker moves
UpdateWriteChecked(t, set, measured_strength) ==
    IF set.result # FSO_SUCCESS
    THEN [t |-> [t EXCEPT !.signal_strength = measured_strength],
          result |-> set.result, map_write |-> set.result]
    ELSE UpdateAfterWrite(t, set, measured_strength)

update_returns_write_error(t, measured_strength) ==
    IF measured_strength < 0
    THEN [t |-> t, result |-> FSO_ERROR_INVALID_PARAM, map_write |-> "none"]
    ELSE UpdateWriteChecked(t, signal_map_set(t.strength_map, t.azimuth, t.elevation,
                                              measured_strength),
                            measured_strength)

\* map_write is the result of the signal_map_set performed inside
beam_track_update(t, measured_strength) ==
    IF measured_strength < 0
    THEN [t |-> t, result |-> FSO_ERROR_INVALID_PARAM, map_write |-> "none"]
    ELSE UpdateAfterWrite(t, signal_map_set(t.strength_map, t.azimuth, t.elevation,
                                            measured_strength),
                          measured_strength)

(***************************************************************************)
(* PID feedback control (pid_control.c)                                    *)
(***************************************************************************)
beam_track_configure_pid(t, kp, ki, kd, update_rate, integral_limit) ==
    IF update_rate <= 0
    THEN [t |-> t, result |-> FSO_ERROR_INVALID_PARAM]
    ELSE [t |-> [t EXCEPT !.pid = pid_reset([@ EXCEPT !.kp = kp, !.ki = ki, !.kd = kd,
                                                      !.update_rate = update_rate,
                                                      !.dt = MilliPerSecond \div update_rate,
                                                      !.integral_limit = integral_limit])],
          result |-> FSO_SUCCESS]

beam_track_reset_pid(t) ==
    [t |-> [t EXCEPT !.pid = pid_reset(@)], result |-> FSO_SUCCESS]

beam_track_pid_update(t, target_az, target_el, measured_strength) ==
    IF measured_strength < 0
    THEN [t |-> t, result |-> FSO_ERROR_INVALID_PARAM, map_write |-> "none"]
    ELSE
      LET set == signal_map_set(t.strength_map, t.azimuth, t.elevation, measured_strength)
          t1 == [t EXCEPT !.signal_strength = measured_strength, !.strength_map = set.map]
          error_az == target_az - t1.azimuth
          error_el == target_el - t1.elevation
          ctl == pid_update(t1.pid, error_az, error_el)
      IN IF ctl.result # FSO_SUCCESS
         THEN [t |-> t1, result |-> ctl.result, map_write |-> set.result]
         ELSE [t |-> [t1 EXCEPT !.pid = ctl.pid,
                                !.azimuth = @ + ctl.output_az,
                                !.elevation = @ + ctl.output_el,
                                !.convergence_count =
                                    IF BelowEpsilon(ctl.output_az, ctl.output_el) THEN @ + 1 ELSE 0,
                                !.update_count = @ + 1],
               result |-> FSO_SUCCESS, map_write |-> set.result]

(***************************************************************************)
(* Tracker state machine: one action per API call on the tracker            *)
(***************************************************************************)
\* what the caller observes of the last call: the operation, its result
\* code (ret for the int of check_misalignment), the measurement passed, the
\* misaligned flag at entry, and the values of the locals the claims speak
\* about (the inner signal_map_set result, the probes, the coarse peak)
NoCall == [op |-> "init", result |-> FSO_SUCCESS, ret |-> -1, arg |-> 0,
           was_misaligned |-> FALSE,
           map_write |-> "none", probes |-> {}, coarse |-> None]

Call == [NoCall EXCEPT !.was_misaligned = tracker.misaligned]

\* a tracker call leaves the other objects alone
TrackerOnly == UNCHANGED <<channel, chLast, dpsk, dpLast, modem, mdLast, fec, fecLast, replay, galois, mapCall, sim>>

TrackerInit ==
    /\ tracker = beam_track_init(NoTracker, 0, 0, MapSamples, MapSamples,
                                 (MapSamples - 1) * MapCell, (MapSamples - 1) * MapCell).t
    /\ last = NoCall

SetThreshold(threshold) ==
    LET r == beam_track_set_threshold(tracker, threshold)
    IN /\ tracker' = r.t
       /\ last' = [Call EXCEPT !.op = "set_threshold", !.result = r.result, !.arg = threshold]
       /\ TrackerOnly

CheckMisalignment(s) ==
    LET r == beam_track_check_misalignment(tracker, s)
    IN /\ tracker' = r.t
       /\ last' = [Call EXCEPT !.op = "check_misalignment", !.ret = r.ret, !.arg = s]
       /\ TrackerOnly

Update(s) ==
    LET r == beam_track_update(tracker, s)
    IN /\ tracker.update_count < MaxUpdates
       /\ tracker' = r.t
       /\ last' = [Call EXCEPT !.op = "update", !.result = r.result, !.arg = s,
                                 !.map_write = r.map_write]
       /\ TrackerOnly

PidUpdate(target, s) ==
    LET r == beam_track_pid_update(tracker, target[1], target[2], s)
    IN /\ tracker.update_count < MaxUpdates
       /\ tracker' = r.t
       /\ last' = [Call EXCEPT !.op = "pid_update", !.result = r.result, !.arg = s,
                                 !.map_write = r.map_write]
       /\ TrackerOnly

ConfigurePid(cfg) ==
    LET r == beam_track_configure_pid(tracker, cfg.kp, cfg.ki, cfg.kd,
                                      cfg.update_rate, cfg.integral_limit)
    IN /\ tracker' = r.t
       /\ last' = [Call EXCEPT !.op = "configure_pid", !.result = r.result]
       /\ TrackerOnly

ResetPid ==
    LET r == beam_track_reset_pid(tracker)
    IN /\ tracker' = r.t
       /\ last' = [Call EXCEPT !.op = "reset_pid", !.result = r.result]
       /\ TrackerOnly

Scan(az_range, el_range, resolution, cb) ==
    LET r == beam_track_scan(tracker, az_range, el_range, resolution, cb)
    IN /\ tracker.scan_count < MaxScans
       /\ tracker' = r.t
       /\ last' = [Call EXCEPT !.op = "scan", !.result = r.result, !.probes = r.probes]
       /\ TrackerOnly

Reacquire(az_range, el_range, resolution, cb) ==
    LET r == beam_track_reacquire(tracker, az_range, el_range, resolution, cb)
    IN /\ tracker.scan_count < MaxScans
       /\ tracker' = r.t
       /\ last' = [Call EXCEPT !.op = "reacquire", !.result = r.result]
       /\ TrackerOnly

Calibrate(az_range, el_range, coarse_resolution, fine_resolution, cb) ==
    LET r == beam_track_calibrate(tracker, az_range, el_range,
                                  coarse_resolution, fine_resolution, cb)
    IN /\ tracker.scan_count < MaxScans
       /\ tracker' = r.t
       /\ last' = [Call EXCEPT !.op = "calibrate", !.result = r.result, !.coarse = r.coarse]
       /\ TrackerOnly

TrackerNext ==
    \/ \E th \in ThresholdInputs : SetThreshold(th)
    \/ \E s \in CheckStrengths : CheckMisalignment(s)
    \/ \E s \in UpdateStrengths : Update(s)
    \/ \E target \in Targets : PidUpdate(target, MaxPeak \div 2)
    \/ \E cfg \in PidConfigs : ConfigurePid(cfg)
    \/ ResetPid
    \/ \E in \in ScanInputs, cb \in CallbackSet : Scan(in[1], in[2], in[3], cb)
    \/ \E in \in ScanInputs, cb \in CallbackSet : Reacquire(in[1], in[2], in[3], cb)
    \/ \E in \in CalibrateInputs, cb \in CallbackSet : Calibrate(in[1], in[2], in[3], in[4], cb)

(***************************************************************************)
(* Gradient descent and scans alone: update with any measurement up to     *)
(* MaxPeak, and scans of the peaked fields.                                *)
(***************************************************************************)
UpdateScanNext ==
    \/ \E s \in 0..MaxPeak : Update(s)
    \/ \E in \in ScanInputs, cb \in CallbackSet : Scan(in[1], in[2], in[3], cb)

(***************************************************************************)
(* The convergence counter: update and pid_update calls in any order, as   *)
(* many as it takes for the tracker to converge.                           *)
(***************************************************************************)
MaxCalls == 6

CounterTargets == {<<0, 0>>, <<MapCell \div 4, 0>>}

CountedUpdate(s) ==
    LET r == beam_track_update(tracker, s)
    IN /\ tracker.update_count < MaxCalls
       /\ tracker' = r.t
       /\ last' = [Call EXCEPT !.op = "update", !.result = r.result, !.arg = s,
                                 !.map_write = r.map_write]
       /\ TrackerOnly

\* pid_update is called while the pointing is inside the map, which bounds
\* the errors and the control outputs
CountedPidUpdate(target, s) ==
    LET r == beam_track_pid_update(tracker, target[1], target[2], s)
    IN /\ tracker.update_count < MaxCalls
       /\ InMapBounds(tracker.strength_map, tracker.azimuth, tracker.elevation)
       /\ tracker' = r.t
       /\ last' = [Call EXCEPT !.op = "pid_update", !.result = r.result, !.arg = s,
                                 !.map_write = r.map_write]
       /\ TrackerOnly

CounterNext ==
    \/ \E s \in UpdateStrengths : CountedUpdate(s)
    \/ \E target \in CounterTargets : CountedPidUpdate(target, MaxPeak \div 2)

(***************************************************************************)
(* The adaptive step size: runs of updates whose measurement rises or      *)
(* falls by one strength unit each time, long enough for the step size to  *)
(* reach either end of its range, among the other tracker operations.      *)
(***************************************************************************)
MaxSteps == 26

\* beam_track_update(&tracker, tracker.signal_strength +/- 0.1)
StepUpdate(change) ==
    LET s == tracker.signal_strength + change
        r == beam_track_update(tracker, s)
    IN /\ tracker.update_count < MaxSteps
       /\ s >= 0
       /\ tracker' = r.t
       /\ last' = [Call EXCEPT !.op = "update", !.result = r.result, !.arg = s,
                                 !.map_write = r.map_write]
       /\ TrackerOnly

\* the scans are made before the run of updates starts
StepNext ==
    \/ \E change \in {-1, 1} : StepUpdate(change)
    \/ \E target \in Targets : PidUpdate(target, MaxPeak \div 2)
    \/ /\ tracker.update_count = 0
       /\ \/ \E in \in ScanInputs, cb \in CallbackSet : Scan(in[1], in[2], in[3], cb)
          \/ \E in \in ScanInputs, cb \in CallbackSet : Reacquire(in[1], in[2], in[3], cb)
          \/ \E in \in CalibrateInputs, cb \in CallbackSet :
                Calibrate(in[1], in[2], in[3], in[4], cb)

(***************************************************************************)
(* The PID controller alone: pid_update, configure_pid and reset, with     *)
(* anti-windup limits small enough for the accumulator to saturate, and a  *)
(* negative limit, which beam_track_configure_pid accepts as it is.        *)
(***************************************************************************)
PidLimitConfigs ==
    {[kp |-> DefaultKp \div 2, ki |-> DefaultKi, kd |-> 0, update_rate |-> DefaultUpdateRate,
      integral_limit |-> IntegralOne \div 10000],
     [kp |-> DefaultKp, ki |-> 0, kd |-> 0, update_rate |-> 2 * DefaultUpdateRate,
      integral_limit |-> IntegralOne \div 20000],
     [kp |-> DefaultKp \div 2, ki |-> DefaultKi, kd |-> 0, update_rate |-> DefaultUpdateRate,
      integral_limit |-> -(IntegralOne \div 10000)]}

PidNext ==
    \/ \E target \in Targets, s \in UpdateStrengths : PidUpdate(target, s)
    \/ \E cfg \in PidLimitConfigs : ConfigurePid(cfg)
    \/ ResetPid

(***************************************************************************)
(* Gradient descent on the Gaussian test field (test_beam_tracking.c):     *)
(* a tracker is constructed at a starting pointing, the map is optionally  *)
(* populated by a scan of the field and the pointing put back, and then    *)
(* update(f(azimuth, elevation)) is applied again and again.               *)
(***************************************************************************)
\* the map of the tests: 21 x 21 samples over 0.2 rad (400 angle units)
TEST_MAP_SIZE == 21
TEST_MAP_RANGE == 400

MaxDescents == 16

\* starting pointings, in angle units; <<100, 60>> is (0.05, 0.03) rad
DescentStarts == {<<100, 60>>, <<20, 0>>, <<0, 0>>, <<-60, 40>>}

\* scan resolution of the tests: 0.01 rad
DescentResolution == TEST_MAP_RANGE \div (TEST_MAP_SIZE - 1)

DescentInit ==
    /\ \E p \in DescentStarts :
          tracker = beam_track_init(NoTracker, p[1], p[2], TEST_MAP_SIZE, TEST_MAP_SIZE,
                                    TEST_MAP_RANGE, TEST_MAP_RANGE).t
    /\ last = NoCall

\* beam_track_scan(&tracker, 0.2, 0.2, 0.01, mock_signal_strength, NULL)
DescentScan ==
    /\ tracker.update_count = 0
    /\ Scan(TEST_MAP_RANGE, TEST_MAP_RANGE, DescentResolution, MockField)

\* tracker.azimuth = ...; tracker.elevation = ...; the caller puts the
\* pointing at a position inside the map before the updates start
SetPointing(p) ==
    /\ tracker.update_count = 0
    /\ InMapBounds(tracker.strength_map, p[1], p[2])
    /\ tracker' = [tracker EXCEPT !.azimuth = p[1], !.elevation = p[2]]
    /\ last' = [Call EXCEPT !.op = "set_pointing"]
    /\ TrackerOnly

\* one pass of the loop: strength = mock_signal_strength(azimuth, elevation);
\* beam_track_update(&tracker, strength)
Descend ==
    LET s == Callback(MockField, tracker.azimuth, tracker.elevation)
        r == beam_track_update(tracker, s)
    IN /\ tracker.update_count < MaxDescents
       /\ tracker' = r.t
       /\ last' = [Call EXCEPT !.op = "update", !.result = r.result, !.arg = s,
                                 !.map_write = r.map_write]
       /\ TrackerOnly

DescentNext ==
    \/ DescentScan
    \/ \E p \in DescentStarts : SetPointing(p)
    \/ Descend

(***************************************************************************)
(* Atmospheric channel object (channel.c)                                  *)
(* distances in metres, wavelengths in nanometres, Cn2 in units of 1e-17,  *)
(* correlation time in microseconds.  The cached derived scalars are kept  *)
(* symbolically: each records the inputs it was computed from.             *)
(***************************************************************************)
MIN_DISTANCE == 100
MAX_DISTANCE == 10000
MIN_WAVELENGTH == 500
MAX_WAVELENGTH == 2000
MIN_CN2 == 1
MAX_CN2 == 100000
DEFAULT_CN2_CLEAR == 100
DEFAULT_CN2_FOG == 500
DEFAULT_CN2_RAIN == 1000
DEFAULT_CN2_SNOW == 2000
DEFAULT_CN2_HIGH_TURB == 10000
DEFAULT_CORRELATION_TIME == 1000
DEFAULT_HISTORY_LENGTH == 100

WeatherCondition ==
    {"WEATHER_CLEAR", "WEATHER_FOG", "WEATHER_RAIN", "WEATHER_SNOW", "WEATHER_HIGH_TURBULENCE"}

channel_get_default_cn2(weather) ==
    CASE weather = "WEATHER_CLEAR" -> DEFAULT_CN2_CLEAR
      [] weather = "WEATHER_FOG" -> DEFAULT_CN2_FOG
      [] weather = "WEATHER_RAIN" -> DEFAULT_CN2_RAIN
      [] weather = "WEATHER_SNOW" -> DEFAULT_CN2_SNOW
      [] weather = "WEATHER_HIGH_TURBULENCE" -> DEFAULT_CN2_HIGH_TURB
      [] OTHER -> DEFAULT_CN2_CLEAR

channel_validate_params(distance, wavelength, cn2) ==
    IF distance < MIN_DISTANCE \/ distance > MAX_DISTANCE THEN FSO_ERROR_INVALID_PARAM
    ELSE IF wavelength < MIN_WAVELENGTH \/ wavelength > MAX_WAVELENGTH THEN FSO_ERROR_INVALID_PARAM
    ELSE IF cn2 < MIN_CN2 \/ cn2 > MAX_CN2 THEN FSO_ERROR_INVALID_PARAM
    ELSE FSO_SUCCESS

\* the cached scalars of a zeroed structure
NoDerived == [rytov_variance |-> <<>>, scintillation_index |-> <<>>,
              path_loss_db |-> <<>>, attenuation_db |-> <<>>]

\* the structure after memset(channel, 0, sizeof(ChannelModel));
\* fade_history is "NULL", "allocated", or "dangling" (freed, pointer kept)
ZeroChannel ==
    [initialized |-> FALSE, link_distance |-> 0, wavelength |-> 0,
     weather |-> "WEATHER_CLEAR", cn2 |-> 0, correlation_time |-> 0,
     history_length |-> 0, fade_history |-> "NULL", derived |-> NoDerived]

channel_update_calculations(ch) ==
    IF ~ch.initialized
    THEN [ch |-> ch, result |-> FSO_ERROR_NOT_INITIALIZED]
    ELSE [ch |-> [ch EXCEPT !.derived =
                    [rytov_variance |-> <<ch.cn2, ch.wavelength, ch.link_distance>>,
                     scintillation_index |-> <<ch.cn2, ch.wavelength, ch.link_distance>>,
                     path_loss_db |-> <<ch.link_distance, ch.wavelength>>,
                     attenuation_db |-> <<ch.weather, ch.wavelength>>]],
          result |-> FSO_SUCCESS]

\* alloc_ok: whether calloc returns a buffer.  double_free reports a second
\* free() of the same buffer.
channel_init_extended(ch, distance, wavelength, weather, cn2, correlation_time, alloc_ok) ==
    IF channel_validate_params(distance, wavelength, cn2) # FSO_SUCCESS
    THEN [ch |-> ch, result |-> FSO_ERROR_INVALID_PARAM]
    ELSE IF ~(correlation_time > 0 /\ correlation_time < 1000000)
    THEN [ch |-> ch, result |-> FSO_ERROR_INVALID_PARAM]
    ELSE
      LET c1 == [ZeroChannel EXCEPT
                   !.link_distance = distance,
                   !.wavelength = wavelength,
                   !.weather = weather,
                   !.cn2 = IF weather = "WEATHER_HIGH_TURBULENCE" THEN DEFAULT_CN2_HIGH_TURB ELSE cn2,
                   !.correlation_time = correlation_time,
                   !.history_length = DEFAULT_HISTORY_LENGTH,
                   !.fade_history = IF alloc_ok THEN "allocated" ELSE "NULL"]
          calc == channel_update_calculations(c1)
      IN IF ~alloc_ok
         THEN [ch |-> c1, result |-> FSO_ERROR_MEMORY]
         ELSE IF calc.result # FSO_SUCCESS
         THEN [ch |-> [calc.ch EXCEPT !.fade_history = "dangling"], result |-> calc.result]
         ELSE [ch |-> [calc.ch EXCEPT !.initialized = TRUE], result |-> FSO_SUCCESS]

channel_init(ch, distance, wavelength, weather, alloc_ok) ==
    LET cn2 == channel_get_default_cn2(weather)
    IN IF channel_validate_params(distance, wavelength, cn2) # FSO_SUCCESS
       THEN [ch |-> ch, result |-> FSO_ERROR_INVALID_PARAM]
       ELSE channel_init_extended(ch, distance, wavelength, weather, cn2,
                                  DEFAULT_CORRELATION_TIME, alloc_ok)

\* the setters share one shape: initialized check, then recalculation
channel_set_weather_params(ch) ==
    IF ~ch.initialized
    THEN [ch |-> ch, result |-> FSO_ERROR_NOT_INITIALIZED]
    ELSE channel_update_calculations(ch)

\* returns the received power class: "zero" on the error path
channel_apply_effects(ch, input_power) ==
    IF ~ch.initialized THEN "zero"
    ELSE IF input_power < 0 THEN "zero"
    ELSE "received"

channel_free(ch) ==
    [ch |-> [ch EXCEPT !.fade_history = "NULL", !.initialized = FALSE],
     double_free |-> ch.fade_history = "dangling"]

(***************************************************************************)
(* Channel state machine                                                   *)
(***************************************************************************)
Distances == {MIN_DISTANCE - 1, MIN_DISTANCE, 1000, MAX_DISTANCE, MAX_DISTANCE + 1}
Wavelengths == {MIN_WAVELENGTH - 1, MIN_WAVELENGTH, 1550, MAX_WAVELENGTH, MAX_WAVELENGTH + 1}
Cn2Inputs == {MIN_CN2 - 1, DEFAULT_CN2_CLEAR, MAX_CN2}

ChannelOnly == UNCHANGED <<tracker, last, dpsk, dpLast, modem, mdLast, fec, fecLast, replay, galois, mapCall, sim>>

\* in_range: the distance and wavelength passed were inside the documented
\* ranges (channel.h: 100 - 10000 m, 500 - 2000 nm)
ChNoCall == [op |-> "none", result |-> FSO_SUCCESS, in_range |-> FALSE,
             alloc_ok |-> TRUE, double_free |-> FALSE, power |-> "none"]

InDocumentedRange(distance, wavelength) ==
    /\ distance >= MIN_DISTANCE /\ distance <= MAX_DISTANCE
    /\ wavelength >= MIN_WAVELENGTH /\ wavelength <= MAX_WAVELENGTH

ChannelInit ==
    /\ channel = ZeroChannel
    /\ chLast = ChNoCall

ChannelInitCall(distance, wavelength, weather, alloc_ok) ==
    LET r == channel_init(channel, distance, wavelength, weather, alloc_ok)
    IN /\ channel' = r.ch
       /\ chLast' = [ChNoCall EXCEPT !.op = "channel_init", !.result = r.result,
                                     !.in_range = InDocumentedRange(distance, wavelength),
                                     !.alloc_ok = alloc_ok]
       /\ ChannelOnly

ChannelInitExtendedCall(distance, wavelength, weather, cn2, alloc_ok) ==
    LET r == channel_init_extended(channel, distance, wavelength, weather, cn2,
                                   DEFAULT_CORRELATION_TIME, alloc_ok)
    IN /\ channel' = r.ch
       /\ chLast' = [ChNoCall EXCEPT !.op = "channel_init_extended", !.result = r.result,
                                     !.in_range = InDocumentedRange(distance, wavelength),
                                     !.alloc_ok = alloc_ok]
       /\ ChannelOnly

ChannelSetWeatherParams ==
    LET r == channel_set_weather_params(channel)
    IN /\ channel' = r.ch
       /\ chLast' = [ChNoCall EXCEPT !.op = "channel_set_weather_params", !.result = r.result]
       /\ ChannelOnly

ChannelUpdateCalculations ==
    LET r == channel_update_calculations(channel)
    IN /\ channel' = r.ch
       /\ chLast' = [ChNoCall EXCEPT !.op = "channel_update_calculations", !.result = r.result]
       /\ ChannelOnly

ChannelApplyEffects ==
    /\ channel' = channel
    /\ chLast' = [ChNoCall EXCEPT !.op = "channel_apply_effects",
                                  !.power = channel_apply_effects(channel, 1)]
    /\ ChannelOnly

ChannelFree ==
    LET r == channel_free(channel)
    IN /\ channel' = r.ch
       /\ chLast' = [ChNoCall EXCEPT !.op = "channel_free", !.double_free = r.double_free]
       /\ ChannelOnly

ChannelNext ==
    \/ \E d \in Distances, w \in Wavelengths, weather \in WeatherCondition, ok \in BOOLEAN :
          ChannelInitCall(d, w, weather, ok)
    \/ \E d \in Distances, w \in Wavelengths, weather \in WeatherCondition,
          cn2 \in Cn2Inputs, ok \in BOOLEAN : ChannelInitExtendedCall(d, w, weather, cn2, ok)
    \/ ChannelSetWeatherParams
    \/ ChannelUpdateCalculations
    \/ ChannelApplyEffects
    \/ ChannelFree

(***************************************************************************)
(* DPSK modulator (dpsk.c, math_utils.c)                                   *)
(* Phases are integer multiples of pi; a complex sample is a pair of       *)
(* integers (every symbol the modulator emits lies on the real axis).      *)
(***************************************************************************)
MaxFrameLen == 2
MaxFrames == 3
ByteInputs == {0, 1, 128, 165, 255}

Frames == UNION {[1..n -> ByteInputs] : n \in 1..MaxFrameLen}

\* cos and sin at k * pi
CosPi(k) == IF k % 2 = 0 THEN 1 ELSE -1

SinPi(k) == 0

fso_complex_from_polar(magnitude, phase) ==
    [real |-> magnitude * CosPi(phase), imag |-> magnitude * SinPi(phase)]

fso_complex_conjugate(c) == [real |-> c.real, imag |-> -c.imag]

fso_complex_mul(a, b) ==
    [real |-> a.real * b.real - a.imag * b.imag,
     imag |-> a.real * b.imag + a.imag * b.real]

\* atan2(imag, real) in units of pi, for samples on the real axis
fso_complex_phase(c) == IF c.real < 0 THEN 1 ELSE 0

\* (byte >> bit_idx) & 0x01
BitOf(byte, bit_idx) == (byte \div (2 ^ bit_idx)) % 2

\* the two while loops that wrap the phase into [-pi, pi]
RECURSIVE WrapPhase(_)
WrapPhase(phase) ==
    IF phase > 1 THEN WrapPhase(phase - 2)
    ELSE IF phase < -1 THEN WrapPhase(phase + 2)
    ELSE phase

\* bits of the frame in transmission order (MSB first): symbol_idx in 1..8*len
FrameBit(data, symbol_idx) ==
    BitOf(data[(symbol_idx - 1) \div 8 + 1], 7 - ((symbol_idx - 1) % 8))

RECURSIVE ModulateFrom(_, _, _, _)
ModulateFrom(data, symbol_idx, current_phase, symbols) ==
    IF symbol_idx > 8 * Len(data) THEN [symbols |-> symbols, phase |-> current_phase]
    ELSE LET phase_change == IF FrameBit(data, symbol_idx) = 1 THEN 1 ELSE 0
             next_phase == WrapPhase(current_phase + phase_change)
         IN ModulateFrom(data, symbol_idx + 1, next_phase,
                         Append(symbols, fso_complex_from_polar(1, next_phase)))

dpsk_modulate(data, state) ==
    IF ~(Len(data) > 0)
    THEN [state |-> state, symbols |-> <<>>, result |-> FSO_ERROR_INVALID_PARAM]
    ELSE
      LET current_phase == IF ~state.initialized THEN 0 ELSE state.last_phase
          m == ModulateFrom(data, 1, current_phase, <<>>)
      IN [state |-> [last_phase |-> m.phase, initialized |-> TRUE],
          symbols |-> m.symbols, result |-> FSO_SUCCESS]

RECURSIVE DemodulateFrom(_, _, _, _)
DemodulateFrom(symbols, symbol_idx, prev_symbol, bits) ==
    IF symbol_idx > Len(symbols) THEN [bits |-> bits, prev_symbol |-> prev_symbol]
    ELSE LET current_symbol == symbols[symbol_idx]
             diff == fso_complex_mul(current_symbol, fso_complex_conjugate(prev_symbol))
             bit == IF diff.real < 0 THEN 1 ELSE 0
         IN DemodulateFrom(symbols, symbol_idx + 1, current_symbol, Append(bits, bit))

\* byte |= (1 << bit_idx) over the 8 bits of byte number byte_idx (MSB first)
RECURSIVE ByteFrom(_, _, _)
ByteFrom(bits, byte_idx, k) ==
    IF k > 8 THEN 0
    ELSE bits[8 * (byte_idx - 1) + k] * (2 ^ (8 - k)) + ByteFrom(bits, byte_idx, k + 1)

dpsk_demodulate(symbols, state) ==
    IF ~(Len(symbols) > 0) \/ Len(symbols) % 8 # 0
    THEN [state |-> state, data |-> <<>>, result |-> FSO_ERROR_INVALID_PARAM]
    ELSE
      LET prev_symbol == IF ~state.initialized THEN fso_complex_from_polar(1, 0)
                         ELSE fso_complex_from_polar(1, state.last_phase)
          d == DemodulateFrom(symbols, 1, prev_symbol, <<>>)
      IN [state |-> [last_phase |-> fso_complex_phase(d.prev_symbol), initialized |-> TRUE],
          data |-> [byte_idx \in 1..(Len(symbols) \div 8) |-> ByteFrom(d.bits, byte_idx, 1)],
          result |-> FSO_SUCCESS]

(***************************************************************************)
(* DPSK link without channel: one DPSKState shared by both directions;     *)
(* each frame is modulated, then its symbols are demodulated.              *)
(***************************************************************************)
DpskOnly == UNCHANGED <<tracker, last, channel, chLast, modem, mdLast, fec, fecLast, replay, galois, mapCall, sim>>

DpskInit ==
    /\ dpsk = [last_phase |-> 0, initialized |-> FALSE]
    /\ dpLast = [op |-> "init", sent |-> <<>>, symbols |-> <<>>, received |-> <<>>,
                 result |-> FSO_SUCCESS, frames |-> 0, before |-> dpsk]

DpskModulate(data) ==
    LET r == dpsk_modulate(data, dpsk)
    IN /\ dpLast.op # "dpsk_modulate"
       /\ dpLast.frames < MaxFrames
       /\ dpsk' = r.state
       /\ dpLast' = [op |-> "dpsk_modulate", sent |-> data, symbols |-> r.symbols,
                     received |-> <<>>, result |-> r.result, frames |-> dpLast.frames + 1,
                     before |-> dpsk]
       /\ DpskOnly

DpskDemodulate ==
    LET r == dpsk_demodulate(dpLast.symbols, dpsk)
    IN /\ dpLast.op = "dpsk_modulate"
       /\ dpsk' = r.state
       /\ dpLast' = [dpLast EXCEPT !.op = "dpsk_demodulate", !.received = r.data,
                                   !.result = r.result]
       /\ DpskOnly

DpskNext ==
    \/ \E data \in Frames : DpskModulate(data)
    \/ DpskDemodulate

(***************************************************************************)
(* Generic modulator (modulation.c) with OOK (ook.c) and PPM (ppm.c).      *)
(* Real-valued symbols are integer multiples of 1/SymbolOne; a frame is a  *)
(* sequence of bytes; SNR is in dB.                                        *)
(***************************************************************************)
MaxDataLen == 3
SymbolOne == 100
ModemBytes == {0, 156, 165, 255}
ModemFrames == UNION {[1..n -> ModemBytes] : n \in 1..MaxDataLen}
SnrInputs == {-10, 0, 20}
ModulationType == {"MOD_OOK", "MOD_PPM", "MOD_DPSK"}
TypeInputs == ModulationType \cup {"MOD_OTHER"}
OrderInputs == {2, 3, 4, 8, 16}

\* memset(mod, 0, sizeof(Modulator)): type 0 is MOD_OOK
ZeroModulator ==
    [type |-> "MOD_OOK", bits_per_symbol |-> 0, order |-> 0, slots_per_symbol |-> 0,
     initialized |-> FALSE]

modulator_init(mod, type) ==
    LET m == [ZeroModulator EXCEPT !.type = type]
    IN CASE type = "MOD_OOK" ->
              [mod |-> [m EXCEPT !.bits_per_symbol = 1, !.initialized = TRUE],
               result |-> FSO_SUCCESS]
         [] type = "MOD_PPM" ->
              [mod |-> [m EXCEPT !.bits_per_symbol = 2, !.order = 4,
                                 !.slots_per_symbol = 4, !.initialized = TRUE],
               result |-> FSO_SUCCESS]
         [] type = "MOD_DPSK" ->
              [mod |-> [m EXCEPT !.bits_per_symbol = 1, !.initialized = TRUE],
               result |-> FSO_SUCCESS]
         [] OTHER -> [mod |-> m, result |-> FSO_ERROR_UNSUPPORTED]

ValidOrder(ppm_order) == ppm_order = 2 \/ ppm_order = 4 \/ ppm_order = 8 \/ ppm_order = 16

ppm_bits_per_symbol(ppm_order) ==
    CASE ppm_order = 2 -> 1
      [] ppm_order = 4 -> 2
      [] ppm_order = 8 -> 3
      [] ppm_order = 16 -> 4
      [] OTHER -> -1

modulator_init_ppm(mod, ppm_order) ==
    IF ~ValidOrder(ppm_order) THEN [mod |-> mod, result |-> FSO_ERROR_INVALID_PARAM]
    ELSE [mod |-> [ZeroModulator EXCEPT !.type = "MOD_PPM", !.order = ppm_order,
                                        !.slots_per_symbol = ppm_order,
                                        !.bits_per_symbol = ppm_bits_per_symbol(ppm_order),
                                        !.initialized = TRUE],
          result |-> FSO_SUCCESS]

modulator_free(mod) == ZeroModulator

\* ---- OOK ----
\* one symbol per bit, MSB first: bit ? 1.0 : 0.0
ook_modulate(data) ==
    IF ~(Len(data) > 0) THEN [symbols |-> <<>>, result |-> FSO_ERROR_INVALID_PARAM]
    ELSE [symbols |-> [symbol_idx \in 1..(8 * Len(data)) |->
                          IF FrameBit(data, symbol_idx) = 1 THEN SymbolOne ELSE 0],
          result |-> FSO_SUCCESS]

\* 0.5 / 10^(snr/10), for snr a non-positive multiple of 10 dB
NoiseVariance(snr) == (SymbolOne \div 2) * (10 ^ ((-snr) \div 10))

ook_calculate_threshold(snr) ==
    IF snr >= 10 THEN SymbolOne \div 2
    ELSE FSO_CLAMP(SymbolOne \div 2 + NoiseVariance(snr) \div 10,
                   (3 * SymbolOne) \div 10, (7 * SymbolOne) \div 10)

\* byte |= (1 << bit_idx) for the symbols at or above the threshold
OokByte(symbols, byte_idx, threshold) ==
    LET bit(k) == IF symbols[8 * (byte_idx - 1) + k] >= threshold THEN 1 ELSE 0
    IN bit(1) * 128 + bit(2) * 64 + bit(3) * 32 + bit(4) * 16
       + bit(5) * 8 + bit(6) * 4 + bit(7) * 2 + bit(8)

ook_demodulate(symbols, snr) ==
    IF ~(Len(symbols) > 0) \/ Len(symbols) % 8 # 0
    THEN [data |-> <<>>, result |-> FSO_ERROR_INVALID_PARAM]
    ELSE [data |-> [byte_idx \in 1..(Len(symbols) \div 8) |->
                       OokByte(symbols, byte_idx, ook_calculate_threshold(snr))],
          result |-> FSO_SUCCESS]

\* ---- PPM ----
\* the while loop of extract_bits; byte_idx counts from 0 as in the code
RECURSIVE ExtractLoop(_, _, _, _, _, _)
ExtractLoop(data, byte_idx, bit_in_byte, num_bits, bits_extracted, result) ==
    IF ~(bits_extracted < num_bits) THEN result
    ELSE LET bits_available == 8 - bit_in_byte
             bits_to_extract == FSO_MIN(num_bits - bits_extracted, bits_available)
             mask == (2 ^ bits_to_extract) - 1
             bits == (data[byte_idx + 1] \div (2 ^ (bits_available - bits_to_extract)))
                         % (mask + 1)
         IN ExtractLoop(data, byte_idx + 1, 0, num_bits, bits_extracted + bits_to_extract,
                        (((result * (2 ^ bits_to_extract)) % 256) + bits) % 256)

extract_bits(data, bit_offset, num_bits) ==
    ExtractLoop(data, bit_offset \div 8, bit_offset % 8, num_bits, 0, 0)

\* data[i] &= ~(mask << shift); data[i] |= bits_value << shift
PutBits(byte, bits_value, shift, width) ==
    (byte - ((byte \div (2 ^ shift)) % (2 ^ width)) * (2 ^ shift)) + bits_value * (2 ^ shift)

\* the while loop of insert_bits
RECURSIVE InsertLoop(_, _, _, _, _, _)
InsertLoop(data, byte_idx, bit_in_byte, bits, num_bits, bits_inserted) ==
    IF ~(bits_inserted < num_bits) THEN data
    ELSE LET bits_available == 8 - bit_in_byte
             bits_to_insert == FSO_MIN(num_bits - bits_inserted, bits_available)
             mask == (2 ^ bits_to_insert) - 1
             bits_value == (bits \div (2 ^ (num_bits - bits_inserted - bits_to_insert)))
                               % (mask + 1)
         IN InsertLoop([data EXCEPT ![byte_idx + 1] =
                            PutBits(@, bits_value, bits_available - bits_to_insert,
                                    bits_to_insert)],
                       byte_idx + 1, 0, bits, num_bits, bits_inserted + bits_to_insert)

insert_bits(data, bit_offset, bits, num_bits) ==
    InsertLoop(data, bit_offset \div 8, bit_offset % 8, bits, num_bits, 0)

\* the chunk of symbol sym_idx (from 0); a short last chunk is padded with zeros
PpmChunk(data, sym_idx, bits_per_sym) ==
    LET total_bits == 8 * Len(data)
        bit_offset == sym_idx * bits_per_sym
        remaining_bits == total_bits - bit_offset
    IN IF bit_offset + bits_per_sym <= total_bits
       THEN extract_bits(data, bit_offset, bits_per_sym)
       ELSE IF remaining_bits > 0
            THEN (extract_bits(data, bit_offset, remaining_bits)
                      * (2 ^ (bits_per_sym - remaining_bits))) % 256
            ELSE 0

ppm_modulate(data, ppm_order) ==
    IF ~(Len(data) > 0) \/ ~ValidOrder(ppm_order)
    THEN [symbols |-> <<>>, result |-> FSO_ERROR_INVALID_PARAM]
    ELSE
      LET bits_per_sym == ppm_bits_per_symbol(ppm_order)
          num_symbols == (8 * Len(data) + bits_per_sym - 1) \div bits_per_sym
      IN [symbols |-> [slot \in 1..(num_symbols * ppm_order) |->
                          IF ((slot - 1) % ppm_order)
                                 = PpmChunk(data, (slot - 1) \div ppm_order, bits_per_sym)
                          THEN SymbolOne ELSE 0],
          result |-> FSO_SUCCESS]

\* a detector that never leaves slot 0
max_slot_stuck(symbols, slot_offset, ppm_order) == 0

\* first slot of the window holding the largest value (the comparison is strict)
MaxSlot(symbols, slot_offset, ppm_order) ==
    CHOOSE s \in 0..(ppm_order - 1) :
        /\ \A t \in 0..(ppm_order - 1) :
               symbols[slot_offset + t + 1] <= symbols[slot_offset + s + 1]
        /\ \A t \in 0..(s - 1) :
               symbols[slot_offset + t + 1] < symbols[slot_offset + s + 1]

\* the symbol loop of ppm_demodulate from symbol sym_idx on
RECURSIVE PpmInsertFrom(_, _, _, _, _, _)
PpmInsertFrom(symbols, data, sym_idx, num_symbols, ppm_order, bits_per_sym) ==
    IF ~(sym_idx < num_symbols) THEN data
    ELSE PpmInsertFrom(symbols,
                       insert_bits(data, sym_idx * bits_per_sym,
                                   MaxSlot(symbols, sym_idx * ppm_order, ppm_order),
                                   bits_per_sym),
                       sym_idx + 1, num_symbols, ppm_order, bits_per_sym)

ppm_demodulate(symbols, ppm_order) ==
    IF ~(Len(symbols) > 0) \/ ~ValidOrder(ppm_order) \/ Len(symbols) % ppm_order # 0
    THEN [data |-> <<>>, result |-> FSO_ERROR_INVALID_PARAM]
    ELSE
      LET bits_per_sym == ppm_bits_per_symbol(ppm_order)
          num_symbols == Len(symbols) \div ppm_order
          num_bytes == (num_symbols * bits_per_sym + 7) \div 8
      IN [data |-> PpmInsertFrom(symbols, [i \in 1..num_bytes |-> 0], 0, num_symbols,
                                 ppm_order, bits_per_sym),
          result |-> FSO_SUCCESS]

\* ---- generic dispatch ----
modulate(mod, data) ==
    IF ~mod.initialized \/ ~(Len(data) > 0)
    THEN [symbols |-> <<>>, result |-> FSO_ERROR_INVALID_PARAM]
    ELSE CASE mod.type = "MOD_OOK" -> ook_modulate(data)
           [] mod.type = "MOD_PPM" -> ppm_modulate(data, mod.order)
           [] OTHER -> [symbols |-> <<>>, result |-> FSO_ERROR_UNSUPPORTED]

demodulate(mod, symbols, snr) ==
    IF ~mod.initialized \/ ~(Len(symbols) > 0)
    THEN [data |-> <<>>, result |-> FSO_ERROR_INVALID_PARAM]
    ELSE CASE mod.type = "MOD_OOK" -> ook_demodulate(symbols, snr)
           [] mod.type = "MOD_PPM" -> ppm_demodulate(symbols, mod.order)
           [] OTHER -> [data |-> <<>>, result |-> FSO_ERROR_UNSUPPORTED]

(***************************************************************************)
(* Modulator object: construct, send a frame, receive its symbols, free.   *)
(***************************************************************************)
ModemOnly == UNCHANGED <<tracker, last, channel, chLast, dpsk, dpLast, fec, fecLast, replay, galois, mapCall, sim>>

MdNoCall == [op |-> "none", result |-> FSO_SUCCESS, sent |-> <<>>, symbols |-> <<>>,
             received |-> <<>>, was_initialized |-> FALSE, sender |-> ZeroModulator]

ModemInit ==
    /\ modem = ZeroModulator
    /\ mdLast = MdNoCall

ModulatorInit(type) ==
    LET r == modulator_init(modem, type)
    IN /\ modem' = r.mod
       /\ mdLast' = [MdNoCall EXCEPT !.op = "modulator_init", !.result = r.result,
                                     !.was_initialized = modem.initialized]
       /\ ModemOnly

ModulatorInitPpm(ppm_order) ==
    LET r == modulator_init_ppm(modem, ppm_order)
    IN /\ modem' = r.mod
       /\ mdLast' = [MdNoCall EXCEPT !.op = "modulator_init_ppm", !.result = r.result,
                                     !.was_initialized = modem.initialized]
       /\ ModemOnly

ModulatorFree ==
    /\ modem' = modulator_free(modem)
    /\ mdLast' = [MdNoCall EXCEPT !.op = "modulator_free",
                                  !.was_initialized = modem.initialized]
    /\ ModemOnly

Modulate(data) ==
    LET r == modulate(modem, data)
    IN /\ mdLast.op # "modulate"
       /\ modem' = modem
       /\ mdLast' = [MdNoCall EXCEPT !.op = "modulate", !.result = r.result,
                                     !.sent = data, !.symbols = r.symbols,
                                     !.was_initialized = modem.initialized,
                                     !.sender = modem]
       /\ ModemOnly

\* the receiver is handed the symbols of the frame just sent; a frame that
\* was not modulated leaves the symbols of an all-zero byte in the buffer
Demodulate(snr) ==
    LET symbols == IF mdLast.symbols = <<>> THEN [i \in 1..8 |-> 0] ELSE mdLast.symbols
        r == demodulate(modem, symbols, snr)
    IN /\ mdLast.op = "modulate"
       /\ modem' = modem
       /\ mdLast' = [mdLast EXCEPT !.op = "demodulate", !.result = r.result,
                                   !.received = r.data,
                                   !.was_initialized = modem.initialized]
       /\ ModemOnly

ModemNext ==
    \/ \E type \in TypeInputs : ModulatorInit(type)
    \/ \E ppm_order \in OrderInputs : ModulatorInitPpm(ppm_order)
    \/ ModulatorFree
    \/ \E data \in ModemFrames : Modulate(data)
    \/ \E snr \in SnrInputs : Demodulate(snr)

(***************************************************************************)
(* Galois field and Reed-Solomon codec (reed_solomon.c, reed_solomon.h)    *)
(* behind the FEC interface (fec.c).  Arrays are functions indexed from 0. *)
(***************************************************************************)
SymbolSize == 3
RS_MAX_SYMBOL_SIZE == 16

\* primitive_polys[]
rs_get_default_primitive_poly(symbol_size) ==
    CASE symbol_size = 3 -> 11
      [] symbol_size = 4 -> 19
      [] symbol_size = 5 -> 37
      [] symbol_size = 6 -> 67
      [] symbol_size = 7 -> 137
      [] symbol_size = 8 -> 285
      [] OTHER -> 0

\* a ^ b on non-negative integers
RECURSIVE Xor(_, _)
Xor(a, b) ==
    IF a = 0 THEN b
    ELSE IF b = 0 THEN a
    ELSE (((a % 2) + (b % 2)) % 2) + 2 * Xor(a \div 2, b \div 2)

gf_add(a, b) == Xor(a, b)

\* the while loop of gf_mul_no_table, result carried along
RECURSIVE MulNoTableLoop(_, _, _, _, _)
MulNoTableLoop(a, b, primitive_poly, field_size, result) ==
    IF ~(b > 0) THEN result
    ELSE LET r == IF b % 2 = 1 THEN Xor(result, a) ELSE result
             a2 == 2 * a
             a3 == IF a2 >= field_size THEN Xor(a2, primitive_poly) ELSE a2
         IN MulNoTableLoop(a3, b \div 2, primitive_poly, field_size, r)

gf_mul_no_table(a, b, primitive_poly, field_size) ==
    MulNoTableLoop(a, b, primitive_poly, field_size, 0)

\* x after i rounds of the first loop of gf_build_tables
RECURSIVE AlphaPower(_, _, _)
AlphaPower(i, primitive_poly, field_size) ==
    IF i = 0 THEN 1
    ELSE LET x == AlphaPower(i - 1, primitive_poly, field_size)
         IN IF x = 0 THEN 0 ELSE gf_mul_no_table(x, 2, primitive_poly, field_size)

\* the three tables; entries the loops do not write keep calloc's zero
gf_build_tables(symbol_size, primitive_poly) ==
    LET field_size == 2 ^ symbol_size
        base == Array([i \in 0..(field_size - 2) |->
                          AlphaPower(i, primitive_poly, field_size)])
        exp == Array([i \in 0..(2 * field_size - 1) |->
                   IF i <= field_size - 2 THEN base[i]
                   ELSE IF i < 2 * field_size - 2 THEN base[i - (field_size - 1)]
                   ELSE 0])
        written(x) == {i \in 1..(field_size - 2) : base[i] = x}
        log == Array([x \in 0..(field_size - 1) |->
                   IF written(x) = {} THEN 0
                   ELSE CHOOSE i \in written(x) : \A j \in written(x) : j <= i])
    IN [symbol_size |-> symbol_size, field_size |-> field_size,
        primitive_poly |-> primitive_poly, exp_table |-> exp, log_table |-> log,
        inv_table |-> [x \in 0..(field_size - 1) |->
                          IF x = 0 THEN 0 ELSE exp[field_size - 1 - log[x]]]]

gf_mul(gf, a, b) ==
    IF a = 0 \/ b = 0 THEN 0
    ELSE LET log_sum == gf.log_table[a] + gf.log_table[b]
         IN gf.exp_table[IF log_sum >= gf.field_size - 1
                         THEN log_sum - (gf.field_size - 1) ELSE log_sum]

gf_pow(gf, base, exponent) ==
    IF base = 0 THEN 0
    ELSE IF exponent = 0 THEN 1
    ELSE gf.exp_table[(gf.log_table[base] * exponent) % (gf.field_size - 1)]

\* one round of the root loop: multiply the polynomial by (x - root)
GeneratorTimesRoot(gf, generator_poly, gen_poly_degree, root) ==
    [j \in DOMAIN generator_poly |->
        IF j = 0 THEN gf_add(0, gf_mul(gf, root, generator_poly[0]))
        ELSE IF j <= gen_poly_degree
             THEN gf_add(generator_poly[j - 1], gf_mul(gf, root, generator_poly[j]))
        ELSE IF j = gen_poly_degree + 1 THEN generator_poly[j - 1]
        ELSE generator_poly[j]]

RECURSIVE GeneratorLoop(_, _, _, _, _)
GeneratorLoop(gf, generator_poly, i, num_roots, fcr) ==
    IF ~(i < num_roots) THEN generator_poly
    ELSE GeneratorLoop(gf, GeneratorTimesRoot(gf, generator_poly, i, gf_pow(gf, 2, fcr + i)),
                       i + 1, num_roots, fcr)

\* generator_poly[j] is the coefficient of x^j
rs_generate_generator_polynomial(gf, num_roots, fcr) ==
    GeneratorLoop(gf, [j \in 0..num_roots |-> IF j = 0 THEN 1 ELSE 0], 0, num_roots, fcr)

NoRS == [n |-> 0, k |-> 0, t |-> 0, num_roots |-> 0, fcr |-> 0, gen_poly_degree |-> 0,
         gf |-> <<>>, generator_poly |-> <<>>, syndrome |-> <<>>]

rs_init(config, n, k) ==
    IF ~(n > k /\ k > 0) \/ ~(n <= (2 ^ config.symbol_size) - 1)
    THEN [rs |-> NoRS, result |-> FSO_ERROR_INVALID_PARAM]
    ELSE IF ~(config.symbol_size >= 3 /\ config.symbol_size <= RS_MAX_SYMBOL_SIZE)
            \/ ~(config.primitive_poly > 0)
    THEN [rs |-> NoRS, result |-> FSO_ERROR_INVALID_PARAM]
    ELSE LET gf == gf_build_tables(config.symbol_size, config.primitive_poly)
         IN [rs |-> [n |-> n, k |-> k, t |-> (n - k) \div 2, num_roots |-> n - k,
                     fcr |-> config.fcr, gen_poly_degree |-> n - k, gf |-> gf,
                     generator_poly |->
                         rs_generate_generator_polynomial(gf, n - k, config.fcr),
                     syndrome |-> [i \in 0..(n - k - 1) |-> 0]],
             result |-> FSO_SUCCESS]

\* one round of the long division: subtract feedback * generator_poly at i
DivideStep(rs, temp, i) ==
    LET feedback == temp[i]
    IN IF feedback = 0 THEN temp
       ELSE [x \in DOMAIN temp |->
                IF x >= i /\ x <= i + rs.gen_poly_degree
                THEN gf_add(temp[x], gf_mul(rs.gf, feedback, rs.generator_poly[x - i]))
                ELSE temp[x]]

RECURSIVE DivideLoop(_, _, _)
DivideLoop(rs, temp, i) ==
    IF ~(i < rs.k) THEN temp ELSE DivideLoop(rs, DivideStep(rs, temp, i), i + 1)

\* data and encoded are sequences (position 1 is index 0 of the C array)
rs_encode(rs, data) ==
    IF Len(data) # rs.k THEN [encoded |-> <<>>, result |-> FSO_ERROR_INVALID_PARAM]
    ELSE LET temp == DivideLoop(rs, [i \in 0..(rs.n - 1) |->
                                        IF i < rs.k THEN data[i + 1] ELSE 0], 0)
         IN [encoded |-> [p \in 1..rs.n |-> IF p <= rs.k THEN data[p] ELSE temp[p - 1]],
             result |-> FSO_SUCCESS]

\* received[0] + ... + received[j-1] * alpha_power^(j-1), summed from the left
RECURSIVE SyndromeSum(_, _, _, _)
SyndromeSum(rs, received, alpha_power, j) ==
    IF j = 0 THEN 0
    ELSE gf_add(SyndromeSum(rs, received, alpha_power, j - 1),
                gf_mul(rs.gf, received[j], gf_pow(rs.gf, alpha_power, j - 1)))

rs_calculate_syndrome(rs, received) ==
    IF Len(received) # rs.n THEN [rs |-> rs, result |-> FSO_ERROR_INVALID_PARAM]
    ELSE [rs |-> [rs EXCEPT !.syndrome =
                     [i \in 0..(rs.num_roots - 1) |->
                         SyndromeSum(rs, received, gf_pow(rs.gf, 2, rs.fcr + i), rs.n)]],
          result |-> FSO_SUCCESS]

rs_has_errors(rs) ==
    IF \E i \in 0..(rs.num_roots - 1) : rs.syndrome[i] # 0 THEN 1 ELSE 0

\* ---- LDPC (src/fec/ldpc.c) ----
\* Matrices hold their non-zero elements (all of value 1) as <<row, col>>
\* pairs, rows and columns counted from 0; log-likelihood ratios are in
\* millionths.
LDPC_MAX_CODE_LENGTH == 8192
LDPC_MAX_ITERATIONS == 100
HardLlrMagnitude == 10000000

NoMatrix == [rows |-> 0, cols |-> 0, nnz |-> 0, elements |-> {},
             row_ptr |-> <<>>, col_indices |-> <<>>]

sparse_matrix_init(rows, cols, nnz) ==
    [rows |-> rows, cols |-> cols, nnz |-> nnz, elements |-> {},
     row_ptr |-> [r \in 0..rows |-> 0], col_indices |-> [j \in 0..(nnz - 1) |-> 0]]

\* position of an element once the elements are sorted by row, then column
SortedPosition(elements, e) ==
    Cardinality({x \in elements : x[1] < e[1] \/ (x[1] = e[1] /\ x[2] < e[2])})

sparse_matrix_to_csr(matrix) ==
    IF matrix.nnz = 0 THEN matrix
    ELSE [matrix EXCEPT
            !.row_ptr = Array([r \in 0..matrix.rows |->
                                  Cardinality({x \in matrix.elements : x[1] < r})]),
            !.col_indices = Array([j \in 0..(matrix.nnz - 1) |->
                                      (CHOOSE e \in matrix.elements :
                                          SortedPosition(matrix.elements, e) = j)[2]])]

\* the columns stored for one row of a matrix in CSR form
CsrRow(matrix, row) ==
    {matrix.col_indices[j] : j \in matrix.row_ptr[row]..(matrix.row_ptr[row + 1] - 1)}

\* the elements of a set of naturals in ascending order, indexed from 0
Ascending(S) ==
    Array([e \in 0..(Cardinality(S) - 1) |->
              CHOOSE x \in S : Cardinality({y \in S : y < x}) = e])

NoLDPC == [n |-> 0, k |-> 0, m |-> 0, max_iterations |-> 0, H |-> NoMatrix, G |-> NoMatrix,
           var_degree |-> <<>>, check_degree |-> <<>>,
           var_to_check_edges |-> <<>>, check_to_var_edges |-> <<>>,
           decoded_bits |-> <<>>, syndrome |-> <<>>]

ldpc_init(config, n, k) ==
    IF ~(n > k /\ k > 0) \/ ~(n <= LDPC_MAX_CODE_LENGTH)
    THEN [ldpc |-> NoLDPC, result |-> FSO_ERROR_INVALID_PARAM]
    ELSE [ldpc |-> [NoLDPC EXCEPT
                      !.n = n, !.k = k, !.m = n - k,
                      !.max_iterations = IF config.max_iterations > 0
                                         THEN config.max_iterations ELSE LDPC_MAX_ITERATIONS,
                      !.var_degree = [v \in 0..(n - 1) |-> 0],
                      !.check_degree = [c \in 0..(n - k - 1) |-> 0],
                      !.var_to_check_edges = [v \in 0..(n - 1) |-> <<>>],
                      !.check_to_var_edges = [c \in 0..(n - k - 1) |-> <<>>],
                      !.decoded_bits = [v \in 0..(n - 1) |-> 0],
                      !.syndrome = [c \in 0..(n - k - 1) |-> 0]],
          result |-> FSO_SUCCESS]

ldpc_init_message_graph(ldpc) ==
    LET VarChecks(v) == {e[1] : e \in {x \in ldpc.H.elements : x[2] = v}}
        CheckVars(c) == {e[2] : e \in {x \in ldpc.H.elements : x[1] = c}}
    IN [ldpc EXCEPT
          !.var_degree = Array([v \in 0..(ldpc.n - 1) |-> Cardinality(VarChecks(v))]),
          !.check_degree = Array([c \in 0..(ldpc.m - 1) |-> Cardinality(CheckVars(c))]),
          !.var_to_check_edges = Array([v \in 0..(ldpc.n - 1) |-> Ascending(VarChecks(v))]),
          !.check_to_var_edges = Array([c \in 0..(ldpc.m - 1) |-> Ascending(CheckVars(c))])]

\* the check nodes given to variable node v by the degrees d, d+1, .., dv-1,
\* after the check nodes in checks were given to it by the earlier degrees
RECURSIVE ColumnChecks(_, _, _, _, _, _)
ColumnChecks(v, d, checks, m, dv, shift_increment) ==
    IF d >= dv THEN checks
    ELSE LET base_check == (v * dv + d) % m
             check_node == (base_check + (d * shift_increment)) % m
             alts == {alt \in 1..(m - 1) : ((check_node + alt) % m) \notin checks}
             first == CHOOSE alt \in alts : \A other \in alts : alt <= other
             added == IF check_node \notin checks THEN {check_node}
                      ELSE IF alts = {} THEN {}
                      ELSE {(check_node + first) % m}
         IN ColumnChecks(v, d + 1, checks \cup added, m, dv, shift_increment)

ldpc_create_regular_matrix(ldpc, dv, dc) ==
    IF ldpc.n * dv # ldpc.m * dc
    THEN [ldpc |-> ldpc, result |-> FSO_ERROR_INVALID_PARAM]
    ELSE LET shift_increment == IF ldpc.m \div dv > 1 THEN ldpc.m \div dv ELSE 1
             elements == UNION {{<<c, v>> : c \in ColumnChecks(v, 0, {}, ldpc.m, dv,
                                                                shift_increment)} :
                                   v \in 0..(ldpc.n - 1)}
             H == [sparse_matrix_init(ldpc.m, ldpc.n, ldpc.n * dv) EXCEPT
                     !.elements = elements, !.nnz = Cardinality(elements)]
         IN [ldpc |-> ldpc_init_message_graph([ldpc EXCEPT !.H = sparse_matrix_to_csr(H)]),
             result |-> FSO_SUCCESS]

\* code_rate is the fraction k/n
ldpc_generate_standard_matrix(ldpc, k, n) ==
    IF ~(k > 0 /\ k < n) THEN [ldpc |-> ldpc, result |-> FSO_ERROR_INVALID_PARAM]
    ELSE IF 2 * k = n THEN ldpc_create_regular_matrix(ldpc, 3, 6)
    ELSE IF 3 * k = 2 * n THEN ldpc_create_regular_matrix(ldpc, 4, 8)
    ELSE IF 4 * k = 3 * n THEN ldpc_create_regular_matrix(ldpc, 5, 10)
    ELSE IF 6 * k = 5 * n THEN ldpc_create_regular_matrix(ldpc, 6, 12)
    ELSE ldpc_create_regular_matrix(ldpc, 3, 6)

DenseMatrix(H) ==
    Array([row \in 0..(H.rows - 1) |->
              Array([col \in 0..(H.cols - 1) |->
                        IF <<row, col>> \in H.elements THEN 1 ELSE 0])])

SwapRows(H_temp, a, b) ==
    Array([row \in DOMAIN H_temp |-> IF row = a THEN H_temp[b]
                                     ELSE IF row = b THEN H_temp[a] ELSE H_temp[row]])

\* every other row with a 1 in the column gets the pivot row added to it
EliminateColumn(H_temp, pivot_row, col) ==
    Array([row \in DOMAIN H_temp |->
              IF row # pivot_row /\ H_temp[row][col] = 1
              THEN Array([c \in DOMAIN H_temp[row] |->
                             (H_temp[row][c] + H_temp[pivot_row][c]) % 2])
              ELSE H_temp[row]])

RECURSIVE EliminationLoop(_, _, _, _, _)
EliminationLoop(H_temp, col, pivot_row, n, m) ==
    IF ~(col < n /\ pivot_row < m) THEN H_temp
    ELSE LET candidates == {row \in pivot_row..(m - 1) : H_temp[row][col] = 1}
             row == CHOOSE r \in candidates : \A other \in candidates : r <= other
         IN IF candidates = {} THEN EliminationLoop(H_temp, col + 1, pivot_row, n, m)
            ELSE EliminationLoop(EliminateColumn(SwapRows(H_temp, pivot_row, row),
                                                 pivot_row, col),
                                 col + 1, pivot_row + 1, n, m)

\* G arrives with room for G.nnz elements: the identity part is written
\* first, then the 1s of the rows 0..k-1 of the reduced H in the columns
\* k..n-1, row by row, while there is room
ldpc_gaussian_elimination(H, G, k) ==
    LET n == H.cols
        m == H.rows
        H_temp == EliminationLoop(DenseMatrix(H), k, 0, n, m)
        identity == {<<i, i>> : i \in {x \in 0..(k - 1) : x < G.nnz}}
        last_row == IF k < m THEN k - 1 ELSE m - 1
        parity == {e \in (0..last_row) \X (k..(n - 1)) : H_temp[e[1]][e[2]] = 1}
        kept == {e \in parity : Cardinality(identity) + SortedPosition(parity, e) < G.nnz}
    IN [G EXCEPT !.elements = identity \cup kept,
                 !.nnz = Cardinality(identity \cup kept)]

ldpc_generate_generator_matrix(ldpc) ==
    LET G == sparse_matrix_init(ldpc.k, ldpc.n, ldpc.k * ldpc.k)
    IN [ldpc |-> [ldpc EXCEPT !.G = sparse_matrix_to_csr(
                                        ldpc_gaussian_elimination(ldpc.H, G, ldpc.k))],
        result |-> FSO_SUCCESS]

\* data and encoded are sequences of bytes: position p holds bit p - 1
ldpc_encode(ldpc, data) ==
    IF Len(data) # ldpc.k THEN [encoded |-> <<>>, result |-> FSO_ERROR_INVALID_PARAM]
    ELSE IF DOMAIN ldpc.G.row_ptr = {} THEN [encoded |-> <<>>, result |-> FSO_ERROR_NOT_INITIALIZED]
    ELSE [encoded |->
            Array([p \in 1..ldpc.n |->
                      IF p <= ldpc.k THEN data[p] % 2
                      ELSE Cardinality({i \in 0..(ldpc.k - 1) :
                                           data[i + 1] % 2 = 1
                                           /\ (p - 1) \in CsrRow(ldpc.G, i)}) % 2]),
          result |-> FSO_SUCCESS]

\* s = H * decoded_bits over GF(2), from the CSR form of H
ldpc_calculate_syndrome(ldpc) ==
    [ldpc EXCEPT !.syndrome =
        Array([row \in 0..(ldpc.m - 1) |->
                  Cardinality({col \in CsrRow(ldpc.H, row) :
                                  col < ldpc.n /\ ldpc.decoded_bits[col] = 1}) % 2])]

ldpc_check_convergence(ldpc) ==
    IF \E i \in 0..(ldpc.m - 1) : ldpc.syndrome[i] # 0 THEN 0 ELSE 1

\* -- belief propagation --
\* phi(x) = -log(tanh(x/2)), and the magnitude 2*atanh(exp(-sum_phi)) of a
\* check message, at the arguments the first iteration produces: a message
\* is 0 or +-HardLlrMagnitude there, so sum_phi is a sum of at most five
\* terms phi(10) = 91 and 10000000
phi(abs_msg) ==
    CASE abs_msg = 0 -> 10000000
      [] abs_msg = HardLlrMagnitude -> 91

CheckMagnitude(sum_phi) ==
    CASE sum_phi = 0 -> 10000000
      [] sum_phi = 91 -> 10000000
      [] sum_phi = 2 * 91 -> 9306853
      [] sum_phi = 3 * 91 -> 8901388
      [] sum_phi = 4 * 91 -> 8613706
      [] sum_phi = 5 * 91 -> 8390562
      [] sum_phi = 10000000 -> 91
      [] sum_phi > 10000000 /\ sum_phi < 10001000 -> 45
      [] sum_phi >= 20000000 -> 0

RECURSIVE SumAt(_, _)
SumAt(messages, indices) ==
    IF indices = {} THEN 0
    ELSE LET i == CHOOSE x \in indices : TRUE
         IN messages[i] + SumAt(messages, indices \ {i})

\* variable_to_check before the first iteration: edge e of variable node v
\* is kept at index v * m + e
InitialVariableToCheck(ldpc, channel_llr) ==
    Array([idx \in 0..(ldpc.n * ldpc.m - 1) |->
              IF (idx % ldpc.m) < ldpc.var_degree[idx \div ldpc.m]
              THEN channel_llr[idx \div ldpc.m] ELSE 0])

\* the message of check node c to the variable node on its edge e; the
\* messages of the other variable nodes v2 are read at index v2 * m + c
CheckMessage(ldpc, variable_to_check, c, e) ==
    LET connected_vars == ldpc.check_to_var_edges[c]
        others == {connected_vars[e2] * ldpc.m + c :
                      e2 \in (0..(ldpc.check_degree[c] - 1)) \ {e}}
        negatives == Cardinality({idx \in others : variable_to_check[idx] < 0})
        sum_phi == SumAt([idx \in others |-> phi(Abs(variable_to_check[idx]))], others)
    IN IF negatives % 2 = 1 THEN 0 - CheckMagnitude(sum_phi) ELSE CheckMagnitude(sum_phi)

\* check_to_variable keeps the message of check node c to variable node v
\* at index c * n + v
ldpc_update_check_messages(ldpc, variable_to_check, check_to_variable) ==
    Array([idx \in 0..(ldpc.n * ldpc.m - 1) |->
              LET c == idx \div ldpc.n
                  v == idx % ldpc.n
                  edges == {e \in 0..(ldpc.check_degree[c] - 1) :
                               ldpc.check_to_var_edges[c][e] = v}
              IN IF edges = {} THEN check_to_variable[idx]
                 ELSE CheckMessage(ldpc, variable_to_check, c, CHOOSE e \in edges : TRUE)])

ldpc_update_variable_messages(ldpc, channel_llr, variable_to_check, check_to_variable) ==
    Array([idx \in 0..(ldpc.n * ldpc.m - 1) |->
              LET v == idx \div ldpc.m
                  e == idx % ldpc.m
                  connected_checks == ldpc.var_to_check_edges[v]
              IN IF ~(e < ldpc.var_degree[v]) THEN variable_to_check[idx]
                 ELSE channel_llr[v]
                      + SumAt(check_to_variable,
                              {connected_checks[e2] * ldpc.n + v :
                                  e2 \in (0..(ldpc.var_degree[v] - 1)) \ {e}})])

posterior_llr(ldpc, channel_llr, check_to_variable, v) ==
    channel_llr[v]
    + SumAt(check_to_variable,
            {ldpc.var_to_check_edges[v][e] * ldpc.n + v : e \in 0..(ldpc.var_degree[v] - 1)})

ldpc_update_posteriors(ldpc, channel_llr, check_to_variable) ==
    [ldpc EXCEPT !.decoded_bits =
        Array([v \in 0..(ldpc.n - 1) |->
                  IF posterior_llr(ldpc, channel_llr, check_to_variable, v) < 0
                  THEN 1 ELSE 0])]

\* the iterations of ldpc_decode from the given one on: check messages,
\* variable messages, posteriors and hard decisions, syndrome, convergence
RECURSIVE BpLoop(_, _, _, _, _)
BpConverge(ldpc, channel_llr, variable_to_check, check_to_variable, iteration) ==
    IF ldpc_check_convergence(ldpc) = 1 THEN [ldpc |-> ldpc, converged |-> 1]
    ELSE BpLoop(ldpc, channel_llr, variable_to_check, check_to_variable, iteration + 1)

BpPosteriors(ldpc, channel_llr, variable_to_check, check_to_variable, iteration) ==
    BpConverge(ldpc_calculate_syndrome(
                   ldpc_update_posteriors(ldpc, channel_llr, check_to_variable)),
               channel_llr, variable_to_check, check_to_variable, iteration)

BpVariable(ldpc, channel_llr, variable_to_check, check_to_variable, iteration) ==
    BpPosteriors(ldpc, channel_llr,
                 ldpc_update_variable_messages(ldpc, channel_llr, variable_to_check,
                                               check_to_variable),
                 check_to_variable, iteration)

BpLoop(ldpc, channel_llr, variable_to_check, check_to_variable, iteration) ==
    IF ~(iteration < ldpc.max_iterations) THEN [ldpc |-> ldpc, converged |-> 0]
    ELSE BpVariable(ldpc, channel_llr, variable_to_check,
                    ldpc_update_check_messages(ldpc, variable_to_check, check_to_variable),
                    iteration)

\* what ldpc_decode hands back once the iterations are over; converged is
\* the decoder's local flag, kept here for the properties only
LdpcDecodeResult(bp, received) ==
    LET decoded == Array([i \in 1..bp.ldpc.k |-> bp.ldpc.decoded_bits[i - 1]])
    IN [ldpc |-> bp.ldpc, decoded |-> decoded,
        errors_corrected |-> Cardinality({i \in 1..bp.ldpc.k : decoded[i] # received[i]}),
        result |-> FSO_SUCCESS, converged |-> bp.converged]

ldpc_decode(ldpc, received, decoded_len) ==
    IF Len(received) # ldpc.n \/ ~(decoded_len >= ldpc.k)
    THEN [ldpc |-> ldpc, decoded |-> <<>>, errors_corrected |-> 0,
          result |-> FSO_ERROR_INVALID_PARAM, converged |-> 0]
    ELSE LET channel_llr == Array([v \in 0..(ldpc.n - 1) |->
                                      IF received[v + 1] = 0 THEN HardLlrMagnitude
                                      ELSE 0 - HardLlrMagnitude])
         IN LdpcDecodeResult(
                BpLoop(ldpc, channel_llr, InitialVariableToCheck(ldpc, channel_llr),
                       Array([idx \in 0..(ldpc.n * ldpc.m - 1) |-> 0]), 0),
                received)

(***************************************************************************)
(* Galois field object on its own (reed_solomon.c: gf_init, gf_free,       *)
(* gf_div, gf_inv, rs_is_primitive_poly_valid)                             *)
(***************************************************************************)
\* the number of shifts that bring temp to 0 (the while loop of
\* rs_is_primitive_poly_valid)
RECURSIVE ShiftCount(_)
ShiftCount(temp) == IF temp > 0 THEN 1 + ShiftCount(temp \div 2) ELSE 0

rs_is_primitive_poly_valid(symbol_size, primitive_poly) ==
    IF symbol_size < 3 \/ symbol_size > RS_MAX_SYMBOL_SIZE THEN FALSE
    ELSE IF primitive_poly <= 0 THEN FALSE
    ELSE ShiftCount(primitive_poly) - 1 = symbol_size

\* a GaloisField after memset(gf, 0, sizeof(GaloisField))
ZeroField == [symbol_size |-> 0, field_size |-> 0, primitive_poly |-> 0,
              exp_table |-> <<>>, log_table |-> <<>>, inv_table |-> <<>>]

\* gf_build_tables stores log_table[x] = i for every power x of alpha; the
\* table has field_size entries, so a power that is not below field_size is
\* written past its end
TableOverflow(symbol_size, primitive_poly) ==
    \E i \in 1..(2 ^ symbol_size - 2) :
        AlphaPower(i, primitive_poly, 2 ^ symbol_size) >= 2 ^ symbol_size

\* gf_init on the object gf.  A write past the end of log_table is undefined
\* behaviour: overflow_outcome chooses between the run that goes on and
\* returns what gf_build_tables returned (the tables hold no defined
\* content and are left out), and the run that is aborted.
Aborted == "aborted"

gf_init(gf, symbol_size, primitive_poly, alloc_ok, overflow_outcome) ==
    IF ~(symbol_size >= 3 /\ symbol_size <= RS_MAX_SYMBOL_SIZE)
    THEN [gf |-> gf, result |-> FSO_ERROR_INVALID_PARAM, undefined |-> FALSE]
    ELSE IF ~(primitive_poly > 0)
    THEN [gf |-> gf, result |-> FSO_ERROR_INVALID_PARAM, undefined |-> FALSE]
    ELSE IF ~alloc_ok
    THEN [gf |-> ZeroField, result |-> FSO_ERROR_MEMORY, undefined |-> FALSE]
    ELSE IF TableOverflow(symbol_size, primitive_poly)
    THEN IF overflow_outcome = Aborted
         THEN [gf |-> ZeroField, result |-> Aborted, undefined |-> TRUE]
         ELSE [gf |-> [ZeroField EXCEPT !.symbol_size = symbol_size,
                                        !.field_size = 2 ^ symbol_size,
                                        !.primitive_poly = primitive_poly],
               result |-> FSO_SUCCESS, undefined |-> TRUE]
    ELSE [gf |-> gf_build_tables(symbol_size, primitive_poly),
          result |-> FSO_SUCCESS, undefined |-> FALSE]

gf_free(gf) == ZeroField

gf_div(gf, a, b) ==
    IF a = 0 THEN 0
    ELSE IF b = 0 THEN 0
    ELSE LET log_diff == gf.log_table[a] - gf.log_table[b]
         IN gf.exp_table[IF log_diff < 0 THEN log_diff + (gf.field_size - 1) ELSE log_diff]

\* variant: the inverse table is not consulted
gf_inv_returns_argument(gf, a) == a

gf_inv(gf, a) == IF a = 0 THEN 0 ELSE gf.inv_table[a]

\* the field that rs_init leaves in rs->gf: rs_init passes the configured
\* symbol size and polynomial to gf_init and returns its error code
RsInitField(symbol_size, primitive_poly, n, k, overflow_outcome) ==
    IF symbol_size >= 3 /\ symbol_size <= RS_MAX_SYMBOL_SIZE /\ primitive_poly > 0
       /\ n > k /\ k > 0 /\ n <= (2 ^ symbol_size) - 1
       /\ TableOverflow(symbol_size, primitive_poly)
    THEN gf_init(ZeroField, symbol_size, primitive_poly, TRUE, overflow_outcome)
    ELSE LET r == rs_init([symbol_size |-> symbol_size, primitive_poly |-> primitive_poly,
                           fcr |-> 1], n, k)
         IN [gf |-> IF r.result = FSO_SUCCESS THEN r.rs.gf ELSE ZeroField,
             result |-> r.result, undefined |-> FALSE]

\* ---- FEC interface ----
ZeroCodec == [type |-> "none", data_length |-> 0, code_length |-> 0,
              codec_state |-> NoRS, is_initialized |-> FALSE]

\* fec_init for FEC_REED_SOLOMON; alloc_ok is whether every allocation succeeds
FecInitReedSolomon(codec, data_length, code_length, config, alloc_ok) ==
    IF ~(code_length > data_length /\ data_length > 0)
    THEN [codec |-> codec, result |-> FSO_ERROR_INVALID_PARAM]
    ELSE LET cleared == [ZeroCodec EXCEPT !.type = "FEC_REED_SOLOMON",
                                          !.data_length = data_length,
                                          !.code_length = code_length]
             r == rs_init(config, code_length, data_length)
         IN IF ~alloc_ok THEN [codec |-> cleared, result |-> FSO_ERROR_MEMORY]
            ELSE IF r.result # FSO_SUCCESS THEN [codec |-> cleared, result |-> r.result]
            ELSE [codec |-> [cleared EXCEPT !.codec_state = r.rs, !.is_initialized = TRUE],
                  result |-> FSO_SUCCESS]

fec_free(codec) == IF ~codec.is_initialized THEN codec ELSE ZeroCodec

\* the received word with the error pattern e (a function on some positions)
\* removed
Corrected(received, e) ==
    [p \in 1..Len(received) |-> IF p \in DOMAIN e THEN Xor(received[p], e[p]) ELSE received[p]]

\* the error patterns of at most rs.t symbols that leave all syndromes zero
Corrections(rs, received) ==
    {e \in UNION {[P -> 1..(rs.gf.field_size - 1)] :
                     P \in {Q \in SUBSET (1..rs.n) : Cardinality(Q) <= rs.t}} :
        rs_has_errors(rs_calculate_syndrome(rs, Corrected(received, e)).rs) = 0}

\* rs_decode as section 4.B describes it: zero syndromes pass the first k
\* symbols through; otherwise the error pattern of at most t symbols is
\* removed, and when there is none the word is uncorrectable: the first k
\* received symbols are produced and the failure code is returned
\* (the uncorrectable field records which of the cases was taken)
RsDecodeCorrect(rs, received, fixes, failure) ==
    IF fixes # {}
    THEN LET e == CHOOSE x \in fixes : TRUE
         IN [rs |-> rs, decoded |-> SubSeq(Corrected(received, e), 1, rs.k),
             errors_corrected |-> Cardinality(DOMAIN e), result |-> FSO_SUCCESS,
             uncorrectable |-> FALSE]
    ELSE [rs |-> rs, decoded |-> SubSeq(received, 1, rs.k), errors_corrected |-> 0,
          result |-> failure, uncorrectable |-> TRUE]

RsDecodeAfterSyndrome(s, received, failure) ==
    IF s.result # FSO_SUCCESS
    THEN [rs |-> s.rs, decoded |-> <<>>, errors_corrected |-> 0, result |-> s.result,
          uncorrectable |-> FALSE]
    ELSE IF rs_has_errors(s.rs) = 0
    THEN [rs |-> s.rs, decoded |-> SubSeq(received, 1, s.rs.k), errors_corrected |-> 0,
          result |-> FSO_SUCCESS, uncorrectable |-> FALSE]
    ELSE RsDecodeCorrect(s.rs, received, Corrections(s.rs, received), failure)

rs_decode(rs, received, failure) ==
    RsDecodeAfterSyndrome(rs_calculate_syndrome(rs, received), received, failure)

fec_encode(codec, data) ==
    IF ~codec.is_initialized \/ Len(data) # codec.data_length
    THEN [encoded |-> <<>>, result |-> FSO_ERROR_INVALID_PARAM]
    ELSE IF codec.type = "FEC_REED_SOLOMON" THEN rs_encode(codec.codec_state, data)
    ELSE IF codec.type = "FEC_LDPC" THEN ldpc_encode(codec.codec_state, data)
    ELSE [encoded |-> <<>>, result |-> FSO_ERROR_UNSUPPORTED]

NoStats == [errors_detected |-> 0, errors_corrected |-> 0, uncorrectable |-> FALSE]

\* decoded_len is the caller's buffer length on entry; it is set to
\* data_length only on success
FecDecodeReedSolomon(codec, received, decoded_len, failure) ==
    IF ~codec.is_initialized \/ Len(received) # codec.code_length
       \/ ~(decoded_len >= codec.data_length)
    THEN [codec |-> codec, decoded |-> <<>>, decoded_len |-> decoded_len,
          stats |-> NoStats, result |-> FSO_ERROR_INVALID_PARAM, found |-> FALSE]
    ELSE LET r == rs_decode(codec.codec_state, received, failure)
         IN [codec |-> [codec EXCEPT !.codec_state = r.rs],
             found |-> r.uncorrectable,
             decoded |-> r.decoded,
             decoded_len |-> IF r.result = FSO_SUCCESS THEN codec.data_length
                             ELSE decoded_len,
             stats |-> [errors_detected |-> r.errors_corrected,
                        errors_corrected |-> r.errors_corrected,
                        uncorrectable |-> (r.result # FSO_SUCCESS)],
             result |-> r.result]

\* fec_init for FEC_LDPC: ldpc_init, then the standard parity-check matrix
\* for the code rate, then the generator matrix
LdpcGenerator(s) ==
    IF s.result # FSO_SUCCESS THEN s ELSE ldpc_generate_generator_matrix(s.ldpc)

LdpcMatrices(i, data_length, code_length) ==
    IF i.result # FSO_SUCCESS THEN i
    ELSE LdpcGenerator(ldpc_generate_standard_matrix(i.ldpc, data_length, code_length))

FecInitLdpc(codec, data_length, code_length, config, alloc_ok) ==
    IF ~(code_length > data_length /\ data_length > 0)
    THEN [codec |-> codec, result |-> FSO_ERROR_INVALID_PARAM]
    ELSE LET cleared == [ZeroCodec EXCEPT !.type = "FEC_LDPC",
                                          !.data_length = data_length,
                                          !.code_length = code_length]
             r == LdpcMatrices(ldpc_init(config, code_length, data_length),
                               data_length, code_length)
         IN IF ~alloc_ok THEN [codec |-> cleared, result |-> FSO_ERROR_MEMORY]
            ELSE IF r.result # FSO_SUCCESS THEN [codec |-> cleared, result |-> r.result]
            ELSE [codec |-> [cleared EXCEPT !.codec_state = r.ldpc, !.is_initialized = TRUE],
                  result |-> FSO_SUCCESS]

\* fec_decode for FEC_LDPC (converged is not part of what the caller gets)
FecDecodeLdpc(codec, received, decoded_len) ==
    IF ~codec.is_initialized \/ Len(received) # codec.code_length
       \/ ~(decoded_len >= codec.data_length)
    THEN [codec |-> codec, decoded |-> <<>>, decoded_len |-> decoded_len,
          stats |-> NoStats, result |-> FSO_ERROR_INVALID_PARAM, converged |-> 0]
    ELSE LET r == ldpc_decode(codec.codec_state, received, decoded_len)
         IN [codec |-> [codec EXCEPT !.codec_state = r.ldpc],
             converged |-> r.converged,
             decoded |-> r.decoded,
             decoded_len |-> IF r.result = FSO_SUCCESS THEN codec.data_length
                             ELSE decoded_len,
             stats |-> [errors_detected |-> r.errors_corrected,
                        errors_corrected |-> r.errors_corrected,
                        uncorrectable |-> (r.result # FSO_SUCCESS)],
             result |-> r.result]

(***************************************************************************)
(* Reed-Solomon codec object: construct, encode a word, compute the        *)
(* syndromes of the encoded word, decode it after symbol errors, free.     *)
(***************************************************************************)
MaxSymbolErrors == 2
RsParams == {<<5, 3>>, <<4, 2>>, <<4, 4>>}
FcrInputs == {1, 3}
DataSymbols == {0, 5}
ErrorValues == {6}
FailureCodes == {FSO_ERROR_CONVERGENCE, FSO_ERROR_INVALID_PARAM}
ErrorPositions(n) == {P \in SUBSET (1..n) : Cardinality(P) <= MaxSymbolErrors}

RsOnly == UNCHANGED <<tracker, last, channel, chLast, dpsk, dpLast, modem, mdLast, replay, galois, mapCall, sim>>

FecNoCall == [op |-> "none", result |-> FSO_SUCCESS, data |-> <<>>, encoded |-> <<>>,
              received |-> <<>>, decoded |-> <<>>, decoded_len |-> 0, stats |-> NoStats,
              has_errors |-> 0, was_initialized |-> FALSE, found_uncorrectable |-> FALSE,
              converged |-> 0]

FecInit ==
    /\ fec = ZeroCodec
    /\ fecLast = FecNoCall

FecInitRs(n, k, fcr, alloc_ok) ==
    LET config == [symbol_size |-> SymbolSize,
                   primitive_poly |-> rs_get_default_primitive_poly(SymbolSize),
                   fcr |-> fcr]
        r == FecInitReedSolomon(fec, k, n, config, alloc_ok)
    IN /\ ~fec.is_initialized
       /\ fec' = r.codec
       /\ fecLast' = [FecNoCall EXCEPT !.op = "fec_init", !.result = r.result]
       /\ RsOnly

FecEncode(data) ==
    LET r == fec_encode(fec, data)
    IN /\ fecLast.op \in {"fec_init", "fec_free"}
       /\ fec' = fec
       /\ fecLast' = [FecNoCall EXCEPT !.op = "fec_encode", !.result = r.result,
                                       !.data = data, !.encoded = r.encoded,
                                       !.was_initialized = fec.is_initialized]
       /\ RsOnly

RsCalculateSyndrome ==
    LET r == rs_calculate_syndrome(fec.codec_state, fecLast.encoded)
    IN /\ fecLast.op = "fec_encode" /\ fecLast.result = FSO_SUCCESS
       /\ fec' = [fec EXCEPT !.codec_state = r.rs]
       /\ fecLast' = [fecLast EXCEPT !.op = "rs_calculate_syndrome", !.result = r.result,
                                     !.has_errors = rs_has_errors(r.rs)]
       /\ RsOnly

\* the encoded word (or, after a failed encode, a zero word of the code
\* length) reaches the decoder with the symbols at the positions P changed
FecDecode(P, value, failure) ==
    LET sent == IF fecLast.encoded = <<>> THEN [p \in 1..fec.code_length |-> 0]
                ELSE fecLast.encoded
        received == Corrected(sent, [p \in P |-> value])
        r == FecDecodeReedSolomon(fec, received, Len(received), failure)
    IN /\ fecLast.op = "fec_encode"
       /\ fec' = r.codec
       /\ fecLast' = [fecLast EXCEPT !.op = "fec_decode", !.result = r.result,
                                     !.received = received, !.decoded = r.decoded,
                                     !.decoded_len = r.decoded_len, !.stats = r.stats,
                                     !.was_initialized = fec.is_initialized,
                                     !.found_uncorrectable = r.found]
       /\ RsOnly

FecFree ==
    /\ fecLast.op # "fec_free"
    /\ fec' = fec_free(fec)
    /\ fecLast' = [FecNoCall EXCEPT !.op = "fec_free",
                                    !.was_initialized = fec.is_initialized]
    /\ RsOnly

RsNext ==
    \/ \E p \in RsParams, fcr \in FcrInputs, alloc_ok \in BOOLEAN :
           FecInitRs(p[1], p[2], fcr, alloc_ok)
    \/ \E n \in {p[2] : p \in RsParams} : \E data \in [1..n -> DataSymbols] : FecEncode(data)
    \/ RsCalculateSyndrome
    \/ \E P \in ErrorPositions(fec.code_length), value \in ErrorValues, failure \in FailureCodes :
           FecDecode(P, value, failure)
    \/ FecFree

(***************************************************************************)
(* LDPC codec object: construct, encode an information word, decode the    *)
(* encoded word after bit errors, free.                                    *)
(***************************************************************************)
MaxInfoBits == 4
MaxBitErrors == 1
LdpcParams == {<<2 * k, k>> : k \in 2..MaxInfoBits} \cup {<<3, 2>>}
IterationInputs == {1}
BitErrorPositions(n) == {P \in SUBSET (1..n) : Cardinality(P) <= MaxBitErrors}

FecInitLdpcCodec(n, k, max_iterations, alloc_ok) ==
    LET config == [max_iterations |-> max_iterations]
        r == FecInitLdpc(fec, k, n, config, alloc_ok)
    IN /\ ~fec.is_initialized
       /\ fec' = r.codec
       /\ fecLast' = [FecNoCall EXCEPT !.op = "fec_init", !.result = r.result]
       /\ RsOnly

\* the encoded word (or, after a failed encode, a zero word of the code
\* length) reaches the decoder with the bits at the positions P flipped
FecDecodeBits(P) ==
    LET sent == IF fecLast.encoded = <<>> THEN [p \in 1..fec.code_length |-> 0]
                ELSE fecLast.encoded
        received == Array([p \in 1..Len(sent) |-> IF p \in P THEN 1 - sent[p] ELSE sent[p]])
        r == FecDecodeLdpc(fec, received, Len(received))
    IN /\ fecLast.op = "fec_encode"
       /\ fec' = r.codec
       /\ fecLast' = [fecLast EXCEPT !.op = "fec_decode", !.result = r.result,
                                     !.received = received, !.decoded = r.decoded,
                                     !.decoded_len = r.decoded_len, !.stats = r.stats,
                                     !.was_initialized = fec.is_initialized,
                                     !.converged = r.converged]
       /\ RsOnly

LdpcNext ==
    \/ \E p \in LdpcParams, max_iterations \in IterationInputs, alloc_ok \in BOOLEAN :
           FecInitLdpcCodec(p[1], p[2], max_iterations, alloc_ok)
    \/ \E k \in {p[2] : p \in LdpcParams} : \E data \in [1..k -> {0, 1}] : FecEncode(data)
    \/ \E P \in BitErrorPositions(fec.code_length) : FecDecodeBits(P)
    \/ FecFree

(***************************************************************************)
(* Random number source (utils/random.c) and replay of one sequence of     *)
(* operations in two runs.  The generator state is an unsigned 32-bit word *)
(* kept as two 16-bit halves; clock is what time(NULL) returns in a run.   *)
(* A run records each operation's name, returned code and returned value.  *)
(***************************************************************************)
Word(x) == [hi |-> x \div 65536, lo |-> x % 65536]

\* tls_random_state (spare is the cached Box-Muller value)
ZeroRandomState == [seed |-> Word(0), has_spare |-> FALSE, spare |-> <<>>]

fso_random_init(clock, seed) ==
    [seed |-> IF seed = 0 THEN Word(clock) ELSE Word(seed),
     has_spare |-> FALSE, spare |-> <<>>]

fso_random_set_seed(state, seed) ==
    [state EXCEPT !.seed = Word(seed), !.has_spare = FALSE]

\* seed * 1103515245 + 12345 modulo 2^32; 1103515245 = 16838 * 2^16 + 20077
LcgStep(seed) ==
    LET low == (seed.lo * 20077) + 12345
    IN [hi |-> (((seed.hi * 20077) % 65536) + ((seed.lo * 16838) % 65536)
                + (low \div 65536)) % 65536,
        lo |-> low % 65536]

\* value is r, the numerator of r / 32768.0
fso_random_uniform(state) ==
    LET next == LcgStep(state.seed)
    IN [state |-> [state EXCEPT !.seed = next], value |-> next.hi % 32768]

\* do { u1 = fso_random_uniform(); } while (u1 == 0.0);
RECURSIVE DrawNonZero(_)
DrawNonZero(state) ==
    LET u == fso_random_uniform(state)
    IN IF u.value = 0 THEN DrawNonZero(u.state) ELSE u

\* the value is named by the uniform draws it is computed from: <<0, u1, u2>>
\* is z0 = r * cos(theta) and <<1, u1, u2>> is z1 = r * sin(theta)
GaussianFrom(state, u1) ==
    LET u2 == fso_random_uniform(u1.state)
    IN [state |-> [u2.state EXCEPT !.has_spare = TRUE,
                                   !.spare = <<1, u1.value, u2.value>>],
        value |-> <<0, u1.value, u2.value>>]

fso_random_gaussian(state) ==
    IF state.has_spare
    THEN [state |-> [state EXCEPT !.has_spare = FALSE], value |-> state.spare]
    ELSE GaussianFrom(state, DrawNonZero(state))

\* channel_init_extended sets the generator's seed from the clock once the
\* parameters are accepted and the history buffer is allocated
ChannelInitSeed(state, clock, distance, wavelength, cn2, correlation_time, alloc_ok) ==
    IF channel_validate_params(distance, wavelength, cn2) # FSO_SUCCESS THEN state
    ELSE IF ~(correlation_time > 0 /\ correlation_time < 1000000) THEN state
    ELSE IF ~alloc_ok THEN state
    ELSE fso_random_set_seed(state, clock)

\* channel_apply_effects with time_step = 0 on a channel whose turbulence
\* is not negligible: the received power is named by the input power and
\* the Gaussian values for the fade and (when noise_power > 0) the noise;
\* <<0>> is the power 0.0 of the error path
ApplyWithNoise(fade, input_power, noise_power) ==
    IF noise_power > 0
    THEN LET noise == fso_random_gaussian(fade.state)
         IN [state |-> noise.state, value |-> <<input_power>> \o fade.value \o noise.value]
    ELSE [state |-> fade.state, value |-> <<input_power>> \o fade.value]

ChannelApplyEffectsRandom(ch, state, input_power, noise_power) ==
    IF channel_apply_effects(ch, input_power) = "zero"
    THEN [state |-> state, value |-> <<0>>]
    ELSE ApplyWithNoise(fso_random_gaussian(state), input_power, noise_power)

MaxOutputs == 3
SeedInputs == {0, 1, 42}
ClockInputs == {1700000000, 1700000001}
NoisePowers == {0, 1}

ReplayOnly ==
    UNCHANGED <<tracker, last, channel, chLast, dpsk, dpLast, modem, mdLast, fec, fecLast, galois, mapCall, sim>>

FreshRun(clock) ==
    [clock |-> clock, random |-> ZeroRandomState, channel |-> ZeroChannel, outputs |-> <<>>]

ReplayInit ==
    replay = [seed |-> 0, a |-> FreshRun(0), b |-> FreshRun(0)]

\* both runs start: the generator is seeded and the instances are fresh
RunRandomInit(run, clock, seed) ==
    [FreshRun(clock) EXCEPT !.random = fso_random_init(clock, seed)]

ReplayRandomInit(seed, clock_a, clock_b) ==
    /\ replay' = [seed |-> seed, a |-> RunRandomInit(replay.a, clock_a, seed),
                  b |-> RunRandomInit(replay.b, clock_b, seed)]
    /\ ReplayOnly

RunRandomSetSeed(run, clock, seed) ==
    [FreshRun(clock) EXCEPT !.random = fso_random_set_seed(run.random, seed)]

ReplayRandomSetSeed(seed, clock_a, clock_b) ==
    /\ replay' = [seed |-> seed, a |-> RunRandomSetSeed(replay.a, clock_a, seed),
                  b |-> RunRandomSetSeed(replay.b, clock_b, seed)]
    /\ ReplayOnly

RunChannelInit(run, distance, wavelength, weather, alloc_ok) ==
    LET r == channel_init(run.channel, distance, wavelength, weather, alloc_ok)
    IN [run EXCEPT
          !.channel = r.ch,
          !.random = ChannelInitSeed(run.random, run.clock, distance, wavelength,
                                     channel_get_default_cn2(weather),
                                     DEFAULT_CORRELATION_TIME, alloc_ok),
          !.outputs = Append(run.outputs, [op |-> "channel_init", result |-> r.result,
                                           value |-> <<>>])]

ReplayChannelInit(distance, wavelength, weather, alloc_ok) ==
    /\ Len(replay.a.outputs) < MaxOutputs
    /\ replay' = [replay EXCEPT
                    !.a = RunChannelInit(replay.a, distance, wavelength, weather, alloc_ok),
                    !.b = RunChannelInit(replay.b, distance, wavelength, weather, alloc_ok)]
    /\ ReplayOnly

RunApplyEffects(run, noise_power) ==
    LET r == ChannelApplyEffectsRandom(run.channel, run.random, 1, noise_power)
    IN [run EXCEPT !.random = r.state,
                   !.outputs = Append(run.outputs, [op |-> "channel_apply_effects",
                                                    result |-> FSO_SUCCESS,
                                                    value |-> r.value])]

ReplayApplyEffects(noise_power) ==
    /\ Len(replay.a.outputs) < MaxOutputs
    /\ replay' = [replay EXCEPT !.a = RunApplyEffects(replay.a, noise_power),
                                !.b = RunApplyEffects(replay.b, noise_power)]
    /\ ReplayOnly

RunUniform(run) ==
    LET r == fso_random_uniform(run.random)
    IN [run EXCEPT !.random = r.state,
                   !.outputs = Append(run.outputs, [op |-> "fso_random_uniform",
                                                    result |-> FSO_SUCCESS,
                                                    value |-> <<r.value>>])]

ReplayUniform ==
    /\ Len(replay.a.outputs) < MaxOutputs
    /\ replay' = [replay EXCEPT !.a = RunUniform(replay.a), !.b = RunUniform(replay.b)]
    /\ ReplayOnly

ReplayNext ==
    \/ \E seed \in SeedInputs, clock_a \in ClockInputs, clock_b \in ClockInputs :
           ReplayRandomInit(seed, clock_a, clock_b)
    \/ \E seed \in SeedInputs, clock_a \in ClockInputs, clock_b \in ClockInputs :
           ReplayRandomSetSeed(seed, clock_a, clock_b)
    \/ \E d \in {MIN_DISTANCE - 1, 1000}, weather \in {"WEATHER_CLEAR", "WEATHER_FOG"},
          ok \in BOOLEAN : ReplayChannelInit(d, 1550, weather, ok)
    \/ \E noise_power \in NoisePowers : ReplayApplyEffects(noise_power)
    \/ ReplayUniform

(***************************************************************************)
(* Construction of signal maps: signal_map_create called directly, and     *)
(* through beam_track_init on a tracker that was not filled in before.     *)
(***************************************************************************)
SampleInputs == 0..MapSamples
RangeInputs == {-MapCell, 0, (MapSamples - 1) * MapCell}

MapCallOnly == UNCHANGED <<tracker, last, channel, chLast, dpsk, dpLast, modem, mdLast, fec, fecLast, replay, galois, sim>>

\* what the caller holds after the last construction call: the arguments,
\* the map (NoMap when there is none) and the result code
NoMapCall == [op |-> "none", azimuth_samples |-> 0, elevation_samples |-> 0,
              azimuth_range |-> 0, elevation_range |-> 0,
              map |-> NoMap, result |-> FSO_SUCCESS]

MapCallInit == mapCall = NoMapCall

SignalMapCreate(azimuth_samples, elevation_samples, azimuth_range, elevation_range) ==
    LET map == signal_map_create(azimuth_samples, elevation_samples,
                                 azimuth_range, elevation_range, 0, 0)
    IN /\ mapCall' = [op |-> "signal_map_create",
                      azimuth_samples |-> azimuth_samples,
                      elevation_samples |-> elevation_samples,
                      azimuth_range |-> azimuth_range,
                      elevation_range |-> elevation_range,
                      map |-> map,
                      result |-> IF map.azimuth_samples = 0 THEN "NULL" ELSE FSO_SUCCESS]
       /\ MapCallOnly

BeamTrackInit(map_az_samples, map_el_samples, map_az_range, map_el_range) ==
    LET r == beam_track_init(NoTracker, 0, 0, map_az_samples, map_el_samples,
                             map_az_range, map_el_range)
    IN /\ mapCall' = [op |-> "beam_track_init",
                      azimuth_samples |-> map_az_samples,
                      elevation_samples |-> map_el_samples,
                      azimuth_range |-> map_az_range,
                      elevation_range |-> map_el_range,
                      map |-> r.t.strength_map,
                      result |-> r.result]
       /\ MapCallOnly

MapCallNext ==
    \/ \E a \in SampleInputs, e \in SampleInputs, ar \in RangeInputs, er \in RangeInputs :
          SignalMapCreate(a, e, ar, er)
    \/ \E a \in SampleInputs, e \in SampleInputs, ar \in RangeInputs, er \in RangeInputs :
          BeamTrackInit(a, e, ar, er)

(***************************************************************************)
(* Simulator with beam tracking (simulation/sim_tracking.c, simulator.c,   *)
(* sim_results.c).  A configuration carries the fields the run branches    *)
(* on; the remaining validated fields hold their defaults.  Distances are  *)
(* in metres, wavelengths in nanometres, turbulence strength in units of   *)
(* 1e-17, correlation time in microseconds, as for the channel.            *)
(***************************************************************************)
SimOnly == UNCHANGED <<tracker, last, channel, chLast, dpsk, dpLast, modem, mdLast, fec, fecLast, replay, galois, mapCall>>

ZeroResults == [tracking_enabled |-> 0, tracking_updates |-> 0, reacquisitions |-> 0,
                total_packets |-> 0, history |-> "NULL"]

NoConfig == [enable_tracking |-> FALSE, link_distance |-> 0, wavelength |-> 0,
             weather |-> "WEATHER_CLEAR", turbulence_strength |-> 0,
             correlation_time |-> 0, num_packets |-> 0]

\* the memory allocator's answers during one run
AllAllocated == [tracker |-> TRUE, results |-> TRUE, stages |-> TRUE,
                 channel |-> TRUE, buffers |-> TRUE]

sim_config_validate(config) ==
    IF config.link_distance < 100 \/ config.link_distance > 10000
    THEN FSO_ERROR_INVALID_PARAM
    ELSE IF config.wavelength < 500 \/ config.wavelength > 2000
    THEN FSO_ERROR_INVALID_PARAM
    ELSE IF config.weather \notin WeatherCondition
    THEN FSO_ERROR_INVALID_PARAM
    ELSE IF config.turbulence_strength < 1 \/ config.turbulence_strength > 100000
    THEN FSO_ERROR_INVALID_PARAM
    ELSE IF config.correlation_time <= 0
    THEN FSO_ERROR_INVALID_PARAM
    ELSE IF config.num_packets < 1 \/ config.num_packets > 1000000
    THEN FSO_ERROR_INVALID_PARAM
    ELSE FSO_SUCCESS

\* memset clears every field before the arrays are allocated
sim_results_init(results, history_capacity, num_packets, alloc_ok) ==
    IF history_capacity = 0 \/ num_packets <= 0
    THEN [results |-> results, result |-> FSO_ERROR_INVALID_PARAM]
    ELSE IF ~alloc_ok
    THEN [results |-> ZeroResults, result |-> FSO_ERROR_MEMORY]
    ELSE [results |-> [ZeroResults EXCEPT !.history = "allocated"], result |-> FSO_SUCCESS]

sim_results_free(results) == [results EXCEPT !.history = "NULL"]

\* the modulator, the codec and the interleaver are set up before the
\* channel and fail only when an allocation does
sim_run(config, results, alloc) ==
    IF sim_config_validate(config) # FSO_SUCCESS
    THEN [results |-> results, result |-> sim_config_validate(config)]
    ELSE
      LET init == sim_results_init(results, config.num_packets * 10, config.num_packets,
                                   alloc.results)
          ch == channel_init_extended(ZeroChannel, config.link_distance, config.wavelength,
                                      config.weather, config.turbulence_strength,
                                      config.correlation_time, alloc.channel)
      IN IF init.result # FSO_SUCCESS
         THEN init
         ELSE IF ~alloc.stages
         THEN [results |-> sim_results_free(init.results), result |-> FSO_ERROR_MEMORY]
         ELSE IF ch.result # FSO_SUCCESS
         THEN [results |-> sim_results_free(init.results), result |-> ch.result]
         ELSE IF ~alloc.buffers
         THEN [results |-> sim_results_free(init.results), result |-> FSO_ERROR_MEMORY]
         ELSE [results |-> [init.results EXCEPT !.total_packets = config.num_packets],
               result |-> FSO_SUCCESS]

\* the tracker is built with a fixed 21 x 21 map of positive range
sim_tracking_init(config, alloc_ok) ==
    IF alloc_ok THEN FSO_SUCCESS ELSE FSO_ERROR_MEMORY

sim_run_with_tracking(config, results, alloc) ==
    IF ~config.enable_tracking
    THEN sim_run(config, results, alloc)
    ELSE IF sim_tracking_init(config, alloc.tracker) # FSO_SUCCESS
    THEN [results |-> results, result |-> sim_tracking_init(config, alloc.tracker)]
    ELSE
      LET run == sim_run(config, [results EXCEPT !.tracking_enabled = 1], alloc)
      IN IF run.result = FSO_SUCCESS
         THEN [results |-> [run.results EXCEPT !.reacquisitions = 0,
                                               !.tracking_updates = config.num_packets],
               result |-> FSO_SUCCESS]
         ELSE run

sim_get_tracking_metrics(results) ==
    IF results.tracking_enabled = 0 THEN FSO_ERROR_INVALID_PARAM ELSE FSO_SUCCESS

MaxPackets == 2
SimConfigs ==
    [enable_tracking : BOOLEAN,
     link_distance : {MIN_DISTANCE - 1, 1000},
     wavelength : {1550},
     weather : {"WEATHER_CLEAR", "WEATHER_HIGH_TURBULENCE"},
     turbulence_strength : {DEFAULT_CN2_CLEAR},
     correlation_time : {DEFAULT_CORRELATION_TIME},
     num_packets : 0..MaxPackets]

SimAllocations ==
    {AllAllocated} \cup
    {[AllAllocated EXCEPT ![f] = FALSE] :
        f \in {"tracker", "results", "stages", "channel", "buffers"}}

SimInit == sim = [config |-> NoConfig, alloc |-> AllAllocated, results |-> ZeroResults,
                  run_result |-> "none", metrics_result |-> "none"]

\* a results structure is declared without an initialiser: its flag is
\* whatever the memory held
SimDeclareResults(flag) ==
    /\ sim' = [config |-> NoConfig, alloc |-> AllAllocated,
               results |-> [ZeroResults EXCEPT !.tracking_enabled = flag],
               run_result |-> "none", metrics_result |-> "none"]
    /\ SimOnly

SimRunWithTracking(config, alloc) ==
    LET r == sim_run_with_tracking(config, sim.results, alloc)
    IN /\ sim' = [config |-> config, alloc |-> alloc, results |-> r.results,
                  run_result |-> r.result, metrics_result |-> "none"]
       /\ SimOnly

SimGetTrackingMetrics ==
    /\ sim.run_result # "none"
    /\ sim' = [sim EXCEPT !.metrics_result = sim_get_tracking_metrics(sim.results)]
    /\ SimOnly

SimNext ==
    \/ \E flag \in {0, 1} : SimDeclareResults(flag)
    \/ \E config \in SimConfigs, alloc \in SimAllocations : SimRunWithTracking(config, alloc)
    \/ SimGetTrackingMetrics

(***************************************************************************)
(* Galois field actions                                                    *)
(***************************************************************************)
MaxFieldBits == 4

\* symbol sizes offered to gf_init: the supported ones up to MaxFieldBits and
\* one on each side of [3, RS_MAX_SYMBOL_SIZE]
FieldBits == (2..MaxFieldBits) \cup {RS_MAX_SYMBOL_SIZE + 1}

\* polynomials offered for symbol size m: 0, and every bit pattern of degree
\* m - 1, m and m + 1
PolyInputs(m) == {0} \cup (IF m <= MaxFieldBits THEN (2 ^ (m - 1))..(2 ^ (m + 2) - 1) ELSE {})

OverflowOutcomes == {"continues", Aborted}

GaloisOnly ==
    UNCHANGED <<tracker, last, channel, chLast, dpsk, dpLast, modem, mdLast, fec, fecLast,
                replay, mapCall, sim>>

GfNoCall == [gf |-> ZeroField, undefined |-> FALSE, op |-> "none", result |-> FSO_SUCCESS,
             symbol_size |-> 0, primitive_poly |-> 0, x |-> 0, product |-> 0,
             quotient |-> 0]

GaloisInit == galois = GfNoCall

Constructed == galois.gf.field_size # 0 /\ ~galois.undefined

GfInit(symbol_size, primitive_poly, alloc_ok, overflow_outcome) ==
    LET r == gf_init(galois.gf, symbol_size, primitive_poly, alloc_ok, overflow_outcome)
    IN /\ galois.op \in {"none", "gf_free"}
       /\ galois' = [GfNoCall EXCEPT !.gf = r.gf, !.undefined = r.undefined,
                                     !.op = "gf_init", !.result = r.result,
                                     !.symbol_size = symbol_size,
                                     !.primitive_poly = primitive_poly]
       /\ GaloisOnly

RsInit(symbol_size, primitive_poly, overflow_outcome) ==
    LET r == RsInitField(symbol_size, primitive_poly, 3, 1, overflow_outcome)
    IN /\ galois.op \in {"none", "gf_free"}
       /\ galois' = [GfNoCall EXCEPT !.gf = r.gf, !.undefined = r.undefined,
                                     !.op = "rs_init", !.result = r.result,
                                     !.symbol_size = symbol_size,
                                     !.primitive_poly = primitive_poly]
       /\ GaloisOnly

\* mul(x, inv(x)) and div(x, x) on a constructed field; the process is not
\* followed after an out-of-bounds write
GfInverse(x) ==
    /\ Constructed
    /\ x \in 0..(galois.gf.field_size - 1)
    /\ galois' = [galois EXCEPT !.op = "gf_inv", !.result = FSO_SUCCESS, !.x = x,
                                !.product = gf_mul(galois.gf, x, gf_inv(galois.gf, x)),
                                !.quotient = gf_div(galois.gf, x, x)]
    /\ GaloisOnly

GfFree ==
    /\ galois.op \notin {"none", "gf_free"}
    /\ galois.result # Aborted
    /\ galois' = [GfNoCall EXCEPT !.gf = gf_free(galois.gf), !.op = "gf_free"]
    /\ GaloisOnly

GaloisNext ==
    \/ \E m \in FieldBits : \E p \in PolyInputs(m), alloc_ok \in BOOLEAN,
          o \in OverflowOutcomes : GfInit(m, p, alloc_ok, o)
    \/ \E m \in FieldBits : \E p \in PolyInputs(m), o \in OverflowOutcomes : RsInit(m, p, o)
    \/ \E x \in 0..(2 ^ MaxFieldBits - 1) : GfInverse(x)
    \/ GfFree

(***************************************************************************)
(* Specifications: one per object; the objects not exercised stay in       *)
(* their constructed state.                                                *)
(***************************************************************************)
Init == TrackerInit /\ ChannelInit /\ DpskInit /\ ModemInit /\ FecInit /\ ReplayInit /\ GaloisInit /\ MapCallInit /\ SimInit

Next ==
    TrackerNext \/ ChannelNext \/ DpskNext \/ ModemNext \/ RsNext \/ LdpcNext \/ ReplayNext
    \/ GaloisNext
    \/ MapCallNext
    \/ SimNext

Spec == Init /\ [][Next]_vars

SpecTracker == Init /\ [][TrackerNext]_vars
SpecUpdateScan == Init /\ [][UpdateScanNext]_vars
SpecCounter == Init /\ [][CounterNext]_vars
SpecStep == Init /\ [][StepNext]_vars
SpecPid == Init /\ [][PidNext]_vars
SpecMapCall == Init /\ [][MapCallNext]_vars
SpecSim == Init /\ [][SimNext]_vars

SpecChannel == Init /\ [][ChannelNext]_vars

SpecDpsk == Init /\ [][DpskNext]_vars

SpecModem == Init /\ [][ModemNext]_vars

SpecRs == Init /\ [][RsNext]_vars

SpecLdpc == Init /\ [][LdpcNext]_vars

SpecReplay == Init /\ [][ReplayNext]_vars

SpecGalois == Init /\ [][GaloisNext]_vars

\* the descent loop alone, from every starting pointing
InitDescent ==
    DescentInit /\ ChannelInit /\ DpskInit /\ ModemInit /\ FecInit /\ ReplayInit /\ GaloisInit /\ MapCallInit /\ SimInit

SpecDescent == InitDescent /\ [][DescentNext]_vars

(***************************************************************************)
(* Properties of the tracker (SpecTracker)                                 *)
(***************************************************************************)
Reacquired == last.op = "reacquire" /\ last.result \in {FSO_SUCCESS, FSO_ERROR_CONVERGENCE}

\* C1: reacquire returns success exactly when the strength stored after its
\* scan is at or above the threshold, and then both the misaligned and the
\* reacquisition flags are false; a post-scan strength below the threshold
\* gives NotConverged.
C1_ReacquireResult ==
    Reacquired =>
        /\ (last.result = FSO_SUCCESS) <=> (tracker.signal_strength >= tracker.signal_threshold)
        /\ (last.result = FSO_SUCCESS) => (~tracker.misaligned /\ ~tracker.reacquisition_mode)
        /\ (tracker.signal_strength < tracker.signal_threshold) =>
               (last.result = FSO_ERROR_CONVERGENCE)

\* a successful reacquire of a tracker that was flagged misaligned
C1_Witness ==
    /\ last.op = "reacquire" /\ last.result = FSO_SUCCESS
    /\ last.was_misaligned
    /\ tracker.signal_strength >= tracker.signal_threshold

\* the outcome check_misalignment(s) is claimed to have
FlagFollowsMeasurement ==
    /\ tracker.misaligned = (last.arg < tracker.signal_threshold)
    /\ last.ret = (IF tracker.misaligned THEN 1 ELSE 0)

\* C2 (amended): for any tracker state and any measurement s >= 0, after
\* check_misalignment(s) the misaligned flag equals (s < threshold) and the
\* value returned equals the flag.
C2_CheckSetsFlag ==
    (last.op = "check_misalignment" /\ last.arg >= 0) => FlagFollowsMeasurement

\* a measurement at or above the threshold clears a flag that was set
C2_Witness ==
    /\ last.op = "check_misalignment" /\ last.arg >= tracker.signal_threshold
    /\ last.was_misaligned /\ ~tracker.misaligned /\ last.ret = 0

\* C2 as stated: the same for any measurement s, negative ones included
C2_AsStated ==
    (last.op = "check_misalignment") => FlagFollowsMeasurement

\* C3: the misaligned flag changes only in check_misalignment and in a
\* successful reacquire or calibrate (which clear it); update, pid_update,
\* scan, set_threshold, configure_pid and reset_pid never change it.
C3_FlagChangesOnlyThere ==
    [][ (tracker'.misaligned # tracker.misaligned) =>
          \/ last'.op = "check_misalignment"
          \/ /\ last'.op \in {"reacquire", "calibrate"}
             /\ last'.result = FSO_SUCCESS
             /\ ~tracker'.misaligned ]_vars

\* a scan that found a signal above the threshold and left the flag set
C3_Witness ==
    /\ last.op = "scan" /\ last.result = FSO_SUCCESS
    /\ tracker.signal_strength >= tracker.signal_threshold
    /\ last.was_misaligned /\ tracker.misaligned

NotConverged ==
    last.op \in {"reacquire", "calibrate"} /\ last.result = FSO_ERROR_CONVERGENCE

\* C4 (amended): when reacquire or calibrate returns NotConverged, the
\* reacquisition flag is false, the stored strength is below the threshold,
\* and the misaligned flag is what it was before the call.
C4_NotConvergedFlags ==
    NotConverged =>
        /\ ~tracker.reacquisition_mode
        /\ tracker.signal_strength < tracker.signal_threshold
        /\ tracker.misaligned = last.was_misaligned

\* a failed reacquire of a tracker that was not flagged misaligned
C4_Witness ==
    /\ last.op = "reacquire" /\ last.result = FSO_ERROR_CONVERGENCE
    /\ ~last.was_misaligned /\ ~tracker.misaligned

\* C4 as stated: NotConverged leaves reacquisition_mode false and misaligned true
C4_AsStated ==
    NotConverged => (~tracker.reacquisition_mode /\ tracker.misaligned)

MaxProbe == CHOOSE m \in {p[3] : p \in last.probes} : \A p \in last.probes : p[3] <= m

\* C5: when scan returns success, the pointing is one of the positions
\* probed during the scan at which the probe returned its maximum, and the
\* stored strength equals that maximum.
C5_ScanAdoptsBestProbe ==
    (last.op = "scan" /\ last.result = FSO_SUCCESS) =>
        /\ tracker.signal_strength = MaxProbe
        /\ <<tracker.azimuth, tracker.elevation, MaxProbe>> \in last.probes

\* C6: after calibrate returns, the stored strength is never lower than the
\* peak found by the coarse scan.
C6_CalibrateKeepsCoarsePeak ==
    (last.op = "calibrate" /\ last.result \in {FSO_SUCCESS, FSO_ERROR_CONVERGENCE}) =>
        tracker.signal_strength >= last.coarse.strength

WriteFailed ==
    last'.op \in {"update", "pid_update"} /\ last'.map_write = FSO_ERROR_INVALID_PARAM

\* C8 (amended): if the signal-map write performed inside update or
\* pid_update fails, the failure is not returned: the map is left as it was,
\* the measurement is stored as the signal strength, the update is counted
\* and the operation returns success.
C8_WriteFailureTolerated ==
    [][ WriteFailed =>
          /\ last'.result = FSO_SUCCESS
          /\ tracker'.strength_map = tracker.strength_map
          /\ tracker'.signal_strength = last'.arg
          /\ tracker'.update_count = tracker.update_count + 1 ]_vars

\* an update, made while pointing outside the map, that returned success
C8_Witness ==
    /\ last.op = "update" /\ last.map_write = FSO_ERROR_INVALID_PARAM
    /\ last.result = FSO_SUCCESS
    /\ tracker.signal_strength = last.arg

\* C8 as stated: the failure is returned at once, and step size, convergence
\* counter, velocity, PID state and pointing are exactly as before
C8_AsStated ==
    [][ WriteFailed =>
          /\ last'.result = FSO_ERROR_INVALID_PARAM
          /\ tracker'.step_size = tracker.step_size
          /\ tracker'.convergence_count = tracker.convergence_count
          /\ tracker'.velocity_az = tracker.velocity_az
          /\ tracker'.velocity_el = tracker.velocity_el
          /\ tracker'.pid = tracker.pid
          /\ tracker'.azimuth = tracker.azimuth
          /\ tracker'.elevation = tracker.elevation ]_vars

(***************************************************************************)
(* Properties of the channel object (SpecChannel)                          *)
(***************************************************************************)
\* C9: constructing a channel with a distance in [100, 10000] m, a
\* wavelength in [500, 2000] nm and any weather returns success and leaves
\* the channel initialised with its cached scalars computed.
C9_ChannelInitSucceeds ==
    (chLast.op = "channel_init" /\ chLast.in_range /\ chLast.alloc_ok) =>
        /\ chLast.result = FSO_SUCCESS
        /\ channel.initialized
        /\ channel.derived # NoDerived

(***************************************************************************)
(* Properties of the DPSK modulator (SpecDpsk)                             *)
(***************************************************************************)
\* C10: with one DPSK state shared by both directions and no channel,
\* modulating and then demodulating each frame of a sequence returns
\* exactly the bytes that were sent.
C10_DpskRoundTrip ==
    (dpLast.op = "dpsk_demodulate") =>
        (dpLast.result = FSO_SUCCESS /\ dpLast.received = dpLast.sent)

\* the frame with the bit at transmission position i inverted
FlipBit(data, i) ==
    LET byte_idx == (i - 1) \div 8 + 1
        weight == 2 ^ (7 - ((i - 1) % 8))
    IN [data EXCEPT ![byte_idx] =
            IF FrameBit(data, i) = 1 THEN @ - weight ELSE @ + weight]

\* what the link returns for a frame sent from the given modulator state
DpskLink(data, state) ==
    LET m == dpsk_modulate(data, state)
    IN dpsk_demodulate(m.symbols, m.state).data

\* C11: with one DPSK state shared by both directions and no channel,
\* inverting the input bit at position i changes the decoded frame at
\* position i only: every other decoded bit is the same as for the
\* unflipped frame sent from the same state.
C11_BitFlipIsLocal ==
    (dpLast.op = "dpsk_demodulate") =>
        \A i \in 1..(8 * Len(dpLast.sent)) :
            LET other == DpskLink(FlipBit(dpLast.sent, i), dpLast.before)
            IN \A j \in (1..(8 * Len(dpLast.sent))) \ {i} :
                   FrameBit(other, j) = FrameBit(dpLast.received, j)

(***************************************************************************)
(* Properties of the generic modulator (SpecModem)                         *)
(***************************************************************************)
\* a frame sent and received by an initialised OOK or PPM modulator
RoundTripDone ==
    /\ mdLast.op = "demodulate"
    /\ mdLast.sender.initialized
    /\ mdLast.sender.type \in {"MOD_OOK", "MOD_PPM"}

\* the frame's bit count is a whole number of symbols
Aligned == (8 * Len(mdLast.sent)) % mdLast.sender.bits_per_symbol = 0

\* C12 (amended): for an OOK modulator and a PPM modulator of order 2, 4, 8
\* or 16, demodulating the noiseless symbols of modulate(b) returns exactly
\* b whenever the bit count of b is a multiple of the bits per symbol (for
\* order 8: a length that is a multiple of 3); otherwise it returns b
\* followed by one zero byte.
C12_RoundTripWhenAligned ==
    RoundTripDone =>
        /\ mdLast.result = FSO_SUCCESS
        /\ Aligned => mdLast.received = mdLast.sent
        /\ ~Aligned => mdLast.received = Append(mdLast.sent, 0)

\* an 8-PPM frame of three bytes, not all zero, came back as sent
C12_Witness ==
    /\ RoundTripDone /\ mdLast.sender.order = 8 /\ Aligned
    /\ mdLast.result = FSO_SUCCESS
    /\ mdLast.sent[1] # 0
    /\ mdLast.received = mdLast.sent

\* C12 as stated: the round trip returns b for every non-empty b
C12_AsStated ==
    RoundTripDone => (mdLast.result = FSO_SUCCESS /\ mdLast.received = mdLast.sent)

\* C13: for a modulator initialised as OOK, PPM or DPSK and a valid
\* non-empty input, the generic modulate and demodulate both return success.
C13_UniformDispatch ==
    (mdLast.op \in {"modulate", "demodulate"} /\ mdLast.was_initialized) =>
        mdLast.result = FSO_SUCCESS


(***************************************************************************)
(* Properties of the Reed-Solomon codec (SpecRs)                           *)
(***************************************************************************)
\* C14: for every RS(n, k) codec and every information word u, encode(u)
\* is a valid codeword: all n - k syndromes computed from it are zero, and
\* decoding it uncorrupted yields u with 0 errors corrected.
C14_EncodeIsCodeword ==
    /\ (fecLast.op = "rs_calculate_syndrome" /\ fecLast.result = FSO_SUCCESS) =>
           (fecLast.has_errors = 0 /\ \A i \in DOMAIN fec.codec_state.syndrome :
                                         fec.codec_state.syndrome[i] = 0)
    /\ (fecLast.op = "fec_decode" /\ fecLast.encoded # <<>>
            /\ fecLast.received = fecLast.encoded) =>
           /\ fecLast.result = FSO_SUCCESS
           /\ fecLast.decoded = fecLast.data
           /\ fecLast.stats.errors_corrected = 0

\* C15: when Reed-Solomon decoding finds the received word uncorrectable,
\* decode returns success with stats.uncorrectable = true, and its output
\* is the first k received symbols with the output length set to k.
C15_UncorrectableIsOk ==
    (fecLast.op = "fec_decode" /\ fecLast.found_uncorrectable) =>
        /\ fecLast.result = FSO_SUCCESS
        /\ fecLast.stats.uncorrectable
        /\ fecLast.decoded = SubSeq(fecLast.received, 1, fec.data_length)
        /\ fecLast.decoded_len = fec.data_length

\* C16: every information word an LDPC codec encodes satisfies every parity
\* check of the codec's matrix: H * encode(u) = 0 over GF(2).
LdpcEncoded ==
    /\ fec.type = "FEC_LDPC" /\ fec.is_initialized
    /\ fecLast.op = "fec_encode" /\ fecLast.result = FSO_SUCCESS

C16_EncodeSatisfiesChecks ==
    LdpcEncoded =>
        \A row \in 0..(fec.codec_state.m - 1) :
            Cardinality({col \in CsrRow(fec.codec_state.H, row) :
                            fecLast.encoded[col + 1] = 1}) % 2 = 0

\* C17: an LDPC decode that used up its iterations without reaching a zero
\* syndrome hands back the hard decisions and tells the caller so, through
\* the returned code or the statistics; a decode that converged does not.
LdpcDecoded ==
    /\ fec.type = "FEC_LDPC" /\ fecLast.was_initialized
    /\ fecLast.op = "fec_decode"

C17_NonConvergenceReported ==
    LdpcDecoded =>
        /\ fecLast.decoded = [i \in 1..fec.codec_state.k |-> fec.codec_state.decoded_bits[i - 1]]
        /\ (fecLast.converged = 0) <=>
               (fecLast.result # FSO_SUCCESS \/ fecLast.stats.uncorrectable)

\* C19: an operation invoked on an object whose construction has not
\* completed (modulate or demodulate on a modulator, encode or decode on an
\* FEC codec, a setter or update_calculations on a channel) returns
\* FSO_ERROR_NOT_INITIALIZED and produces nothing.
C19_NotInitializedKind ==
    /\ (mdLast.op \in {"modulate", "demodulate"} /\ ~mdLast.was_initialized) =>
           /\ mdLast.result = FSO_ERROR_NOT_INITIALIZED
           /\ mdLast.op = "modulate" => mdLast.symbols = <<>>
           /\ mdLast.op = "demodulate" => mdLast.received = <<>>
    /\ (fecLast.op \in {"fec_encode", "fec_decode"} /\ ~fecLast.was_initialized) =>
           /\ fecLast.result = FSO_ERROR_NOT_INITIALIZED
           /\ fecLast.op = "fec_encode" => fecLast.encoded = <<>>
           /\ fecLast.op = "fec_decode" => fecLast.decoded = <<>>
    /\ (chLast.op \in {"channel_set_weather_params", "channel_update_calculations"}
        /\ ~channel.initialized) =>
           chLast.result = FSO_ERROR_NOT_INITIALIZED

\* C18: two runs that seed the generator with the same non-zero seed, use
\* fresh instances and apply the same operations with the same inputs
\* produce the same outputs.
C18_SameSeedSameOutputs ==
    replay.seed # 0 => replay.a.outputs = replay.b.outputs

\* C20: starting from any pointing inside the map and repeatedly applying
\* update(s) with s = f(azimuth, elevation) for the Gaussian field f,
\* is_converged becomes true with the pointing within a bounded residual
\* (ten minimum steps) of the maximum of f.  Finite-run form: whenever the
\* updates have made the tracker converged, the pointing is within the
\* residual of the maximum.
ResidualBound == (10 * StepSizeMin) \div AngleUnit

NearMaximum ==
    /\ Abs(tracker.azimuth - MockField.az) <= ResidualBound
    /\ Abs(tracker.elevation - MockField.el) <= ResidualBound
    /\ (tracker.azimuth - MockField.az) * (tracker.azimuth - MockField.az)
         + (tracker.elevation - MockField.el) * (tracker.elevation - MockField.el)
           <= ResidualBound * ResidualBound

DescentConverged == last.op = "update" /\ beam_track_is_converged(tracker)

C20_ConvergedNearMaximum == DescentConverged => NearMaximum

(***************************************************************************)
(* Properties of the Galois field (SpecGalois)                             *)
(***************************************************************************)
\* the polynomial has degree m and x generates every non-zero element
PrimitivePoly(symbol_size, primitive_poly) ==
    /\ rs_is_primitive_poly_valid(symbol_size, primitive_poly)
    /\ {AlphaPower(i, primitive_poly, 2 ^ symbol_size) : i \in 0..(2 ^ symbol_size - 2)}
           = 1..(2 ^ symbol_size - 1)

InverseTaken == galois.op = "gf_inv" /\ galois.x # 0

\* C21 as stated: in every successfully constructed GaloisField(m, poly) and
\* for every non-zero x, mul(x, inv(x)) = 1 and div(x, x) = 1.
C21_AsStated == InverseTaken => (galois.product = 1 /\ galois.quotient = 1)

\* C21 amended: in every GaloisField(m, poly) constructed with a primitive
\* polynomial of degree m and for every non-zero x, mul(x, inv(x)) = 1 and
\* div(x, x) = 1; div(x, x) = 1 in every constructed field.
C21_InverseInPrimitiveField ==
    InverseTaken =>
        /\ galois.quotient = 1
        /\ PrimitivePoly(galois.gf.symbol_size, galois.gf.primitive_poly)
              => galois.product = 1

C21_Witness ==
    /\ InverseTaken
    /\ galois.x > 1
    /\ PrimitivePoly(galois.gf.symbol_size, galois.gf.primitive_poly)
    /\ gf_inv(galois.gf, galois.x) # galois.x
    /\ galois.product = 1

\* C22: constructing a Galois field, directly or through rs_init, with m
\* outside [3, 16] or with a polynomial whose degree is not m fails with
\* InvalidParam and leaves no field tables built (allocation not failing).
BadFieldRequested ==
    /\ galois.op \in {"gf_init", "rs_init"}
    /\ galois.result # FSO_ERROR_MEMORY
    /\ ~rs_is_primitive_poly_valid(galois.symbol_size, galois.primitive_poly)

C22_BadFieldRejected ==
    BadFieldRequested =>
        (galois.result = FSO_ERROR_INVALID_PARAM /\ galois.gf.field_size = 0)

(***************************************************************************)
(* C23: after any sequence of pid_update, configure_pid and reset, the     *)
(* integral accumulator of each axis lies within [-I_lim, +I_lim] for the  *)
(* limit configured at that moment.                                        *)
(***************************************************************************)
IntegralWithinLimit ==
    /\ -tracker.pid.integral_limit <= tracker.pid.integral_az
    /\ tracker.pid.integral_az <= tracker.pid.integral_limit
    /\ -tracker.pid.integral_limit <= tracker.pid.integral_el
    /\ tracker.pid.integral_el <= tracker.pid.integral_limit

\* C23 as stated: the accumulators are within the limit in every state
C23_AsStated == IntegralWithinLimit

\* C23 amended: the accumulators are within the limit whenever the
\* configured limit is not negative; under a negative limit a pid_update
\* leaves both accumulators at -I_lim, above +I_lim
C23_IntegralWithinLimit ==
    /\ tracker.pid.integral_limit >= 0 => IntegralWithinLimit
    /\ (tracker.pid.integral_limit < 0 /\ last.op = "pid_update" /\ last.result = FSO_SUCCESS)
         => /\ tracker.pid.integral_az = -tracker.pid.integral_limit
            /\ tracker.pid.integral_el = -tracker.pid.integral_limit

\* a pid_update under a reconfigured limit has saturated the azimuth accumulator
C23_Witness ==
    /\ last.op = "pid_update"
    /\ last.result = FSO_SUCCESS
    /\ tracker.pid.integral_limit = IntegralOne \div 20000
    /\ tracker.pid.integral_az = tracker.pid.integral_limit
    /\ tracker.update_count = MaxUpdates

(***************************************************************************)
(* C24: no signal map is constructed with fewer than 2 samples on either   *)
(* axis: signal_map_create returns NULL and beam_track_init returns        *)
(* FSO_ERROR_INVALID_PARAM for such dimensions, so that every map that     *)
(* exists has a finite positive resolution on both axes.                   *)
(***************************************************************************)
MapExists == mapCall.map.azimuth_samples # 0

FinitePositive(x) == 0 < x /\ x < PositiveInfinity

C24_SmallMapRejected ==
    /\ (mapCall.op # "none" /\ (mapCall.azimuth_samples < 2 \/ mapCall.elevation_samples < 2))
         => /\ ~MapExists
            /\ mapCall.op = "beam_track_init" => mapCall.result = FSO_ERROR_INVALID_PARAM
    /\ MapExists
         => /\ FinitePositive(mapCall.map.azimuth_resolution)
            /\ FinitePositive(mapCall.map.elevation_resolution)

(***************************************************************************)
(* C25: after any sequence of update and scan operations on a tracker      *)
(* whose pointing started inside its signal map, the pointing is inside    *)
(* the bounds of the map, and the measurement passed to an update is       *)
(* recorded in the map.                                                    *)
(***************************************************************************)
PointingInsideMap == InMapBounds(tracker.strength_map, tracker.azimuth, tracker.elevation)

C25_PointingStaysInsideMap ==
    /\ PointingInsideMap
    /\ last.op = "update" => last.map_write = FSO_SUCCESS

\* C25 amended: a scan leaves the pointing inside the map; an update records
\* its measurement exactly when the pointing it started from was inside the
\* map, and may leave the pointing outside
C25_ScanPutsPointingInsideMap ==
    [][/\ (last'.op = "scan" /\ last'.result = FSO_SUCCESS) => PointingInsideMap'
       /\ (last'.op = "update" /\ last'.result = FSO_SUCCESS)
            => (last'.map_write = FSO_SUCCESS <=> PointingInsideMap)]_vars

\* an update has started from a pointing that an earlier update, after a
\* scan, had put outside the map, and could not record its measurement
C25_Witness ==
    /\ last.op = "update"
    /\ last.result = FSO_SUCCESS
    /\ last.map_write = FSO_ERROR_INVALID_PARAM
    /\ tracker.scan_count > 0
    /\ ~PointingInsideMap

(***************************************************************************)
(* C26: one update or pid_update call advances the convergence counter by  *)
(* at most one, so that is_converged() is true only after at least         *)
(* convergence_threshold (10) calls.                                       *)
(***************************************************************************)
CounterCall == last'.op \in {"update", "pid_update"}

StandardDegrees(k, n) ==
    IF 2 * k = n THEN <<3, 6>>
    ELSE IF 3 * k = 2 * n THEN <<4, 8>>
    ELSE IF 4 * k = 3 * n THEN <<5, 10>>
    ELSE IF 6 * k = 5 * n THEN <<6, 12>>
    ELSE <<3, 6>>

RegularMatrix(ldpc, dv, dc) ==
    /\ \A v \in 0..(ldpc.n - 1) : ldpc.var_degree[v] = dv
    /\ \A c \in 0..(ldpc.m - 1) : ldpc.check_degree[c] = dc
    /\ \A v \in 0..(ldpc.n - 1) :
          Cardinality({e \in ldpc.H.elements : e[2] = v}) = ldpc.var_degree[v]
    /\ ldpc.H.nnz = ldpc.n * dv
    /\ ldpc.H.nnz = ldpc.m * dc

C27_MatrixIsRegular ==
    (fec.type = "FEC_LDPC" /\ fec.is_initialized)
        => RegularMatrix(fec.codec_state,
                         StandardDegrees(fec.codec_state.k, fec.codec_state.n)[1],
                         StandardDegrees(fec.codec_state.k, fec.codec_state.n)[2])

(***************************************************************************)
(* C28: after any sequence of tracker operations (init, update,            *)
(* pid_update, scan, reacquire, calibrate) the gradient-descent step size  *)
(* lies within [step_size_min, step_size_max].                             *)
(***************************************************************************)
C28_StepSizeInRange ==
    /\ StepSizeMin <= tracker.step_size
    /\ tracker.step_size <= StepSizeMax

\* a run of improving updates has taken the step size to its maximum
C28_Witness ==
    /\ last.op = "update"
    /\ last.result = FSO_SUCCESS
    /\ tracker.step_size = StepSizeMax
    /\ tracker.update_count = MaxSteps

(***************************************************************************)
(* C29: a channel whose construction failed owns no buffer: after          *)
(* channel_init or channel_init_extended has returned an error the         *)
(* fade-history pointer refers to nothing, and a channel_free that follows *)
(* releases nothing a second time.                                         *)
(***************************************************************************)
ConstructionFailed ==
    /\ chLast.op \in {"channel_init", "channel_init_extended"}
    /\ chLast.result # FSO_SUCCESS

C29_FailedChannelOwnsNoBuffer ==
    /\ ConstructionFailed => channel.fade_history = "NULL"
    /\ chLast.op = "channel_free" => ~chLast.double_free

(***************************************************************************)
(* C30                                                                     *)
(***************************************************************************)
\* a run with tracking enabled whose configuration is valid and whose
\* allocations all succeed
TrackedRun ==
    /\ sim.run_result # "none"
    /\ sim.config.enable_tracking
    /\ sim_config_validate(sim.config) = FSO_SUCCESS
    /\ sim.alloc = AllAllocated

TrackedRunNeverSucceeds ==
    sim.config.enable_tracking => sim.run_result # FSO_SUCCESS

\* once sim_run has initialised the results the flag set before the call is
\* cleared, so the metrics are refused
FlagClearedByResultsInit ==
    (TrackedRun /\ sim.metrics_result # "none") =>
        /\ sim.results.tracking_enabled = 0
        /\ sim.metrics_result = FSO_ERROR_INVALID_PARAM

=============================================================================
